---- MODULE Spec2Model ----
(***************************************************************************)
(* Model of the CRI metadata extractor (src/extract_cri_metadata.py):      *)
(* parse_awb decodes an AFS2 archive index and runs parse_hca over every   *)
(* entry's byte slice; parse_acb decodes a table file with parse_utf and   *)
(* projects its root row; scan_directory walks a directory tree and pairs  *)
(* the two kinds of file.  A run of Spec or SpecUtf decodes one input      *)
(* file, drawn by Init from a bounded family of byte buffers; a run of     *)
(* SpecScan walks one directory tree.  The actions are the steps of the    *)
(* functions, in program order.  Two functions of the other tools are      *)
(* modelled with them: parse_awb_tracks (src/rename_partner_voices.py),    *)
(* the second parser of the archive index, as an operator on the same      *)
(* file, and extract_awb (src/extract_voices_to_mp3.py), which names the   *)
(* output files of one archive (SpecExtract).                              *)
(*                                                                         *)
(* Bytes are 0..255 and a buffer is a sequence of bytes; Python's offset p *)
(* is element p+1 of the sequence.  TLC's integers are 32-bit signed, so a *)
(* 4-byte tag is kept as its four bytes (in buffer order) and the masked   *)
(* comparison `x & 0x7F7F7F7F == tag` is made byte by byte; numeric fields *)
(* are decoded to integers and the inputs keep them below 2^31.            *)
(***************************************************************************)
EXTENDS Integers, Sequences, FiniteSets, TLC

VARIABLES
    data,      \* parse_awb: the bytes read from the file
    pc,        \* position in parse_awb / parse_hca
    awb,       \* parse_awb: meta (AWBMetadata)
    pos,       \* parse_awb: pos
    file_ids,  \* parse_awb: file_ids
    start,     \* parse_awb: start
    end,       \* parse_awb: end
    i,         \* parse_awb: loop index of the entry loop
    ranges,    \* history of the (start, end) pair each entry was sliced with
    hdata,     \* parse_hca: data (the entry's slice)
    hca,       \* parse_hca: meta (HCAMetadata)
    hpos,      \* parse_hca: pos
    src,       \* the description the input file was built from (never read by the decoder)
    udata,     \* parse_acb: the bytes read from the file
    upc,       \* position in parse_acb / parse_utf
    uhdr,      \* parse_utf: the header fields of the outermost table
    upos,      \* parse_utf: pos
    value_pos, \* parse_utf: value_pos
    page_idx,  \* parse_utf: page_idx
    elem_idx,  \* parse_utf: elem_idx
    page,      \* parse_utf: page
    pages,     \* parse_utf: pages
    utf,       \* parse_acb: utf, what parse_utf returned or raised
    acb,       \* parse_acb: meta (ACBMetadata)
    usrc,      \* the description the table file was built from (never read by the decoder)
    listing,   \* scan_directory: the files os.walk yields, in the order it yields them
    spc,       \* position in scan_directory
    fidx,      \* scan_directory: how many files of the walk have been handled
    archives,  \* scan_directory: archives (dict, in insertion order)
    result,    \* scan_directory: result
    vgm,           \* extract_awb: what vgmstream reports for each subsong of the file
    epc,           \* position in extract_awb
    subsong_infos, \* extract_awb: subsong_infos
    name_counts,   \* extract_awb: name_counts (dict, in insertion order)
    name_variant,  \* extract_awb: name_variant (dict, in insertion order)
    eidx,          \* extract_awb: how many subsongs the running loop has handled
    success,       \* extract_awb: success
    skipped,       \* extract_awb: skipped
    written,       \* the calls of extract_subsong_to_mp3: subsong, file name, outcome
    ereturn        \* extract_awb: the pair returned

awbvars == <<data, pc, awb, pos, file_ids, start, end, i, ranges, hdata, hca, hpos, src>>
uvars == <<udata, upc, uhdr, upos, value_pos, page_idx, elem_idx, page, pages, utf, acb, usrc>>
svars == <<listing, spc, fidx, archives, result>>
evars == <<vgm, epc, subsong_infos, name_counts, name_variant, eidx, success, skipped,
           written, ereturn>>
vars == <<awbvars, uvars, svars, evars>>

(***************************************************************************)
(* Bounds of the input family.                                             *)
(***************************************************************************)
MaxEntries == 3
MaxChunks == 2
MaxRawEntries == 2
MaxCols == 2
MaxRows == 2

\* the rows the memory of the machine holds, more than any table file that
\* is not written to exhaust it has
MemRows == MaxRows + 2

(***************************************************************************)
(* Byte-level helpers.                                                     *)
(***************************************************************************)
Min(a, b) == IF a <= b THEN a ELSE b

\* struct.unpack succeeds iff the slice data[p:p+n] has n bytes
CanRead(d, p, n) == p + n <= Len(d)

U16LE(d, p) == d[p + 1] + 256 * d[p + 2]
U32LE(d, p) == d[p + 1] + 256 * d[p + 2] + 65536 * d[p + 3] + 16777216 * d[p + 4]
U16BE(d, p) == 256 * d[p + 1] + d[p + 2]
U32BE(d, p) == 16777216 * d[p + 1] + 65536 * d[p + 2] + 256 * d[p + 3] + d[p + 4]

\* the four bytes of a 32-bit word, in buffer order
Word(d, p) == <<d[p + 1], d[p + 2], d[p + 3], d[p + 4]>>

\* Mask7F without the mask
MaskNone(w) == w

\* x & 0x7F7F7F7F on the four bytes of x
Mask7F(w) == [k \in 1..4 |-> w[k] % 128]

\* Python's data[a:b] for a, b >= 0
Slice(d, a, b) ==
    LET lo == Min(a, Len(d))
        hi == Min(b, Len(d))
    IN  IF hi <= lo THEN <<>> ELSE SubSeq(d, lo + 1, hi)

\* str(e) of the struct.error raised by unpacking a short slice
StructError(n) == <<"unpack requires a buffer of n bytes", n>>
\* str(e) of the IndexError raised by data[pos] past the end
IndexError == <<"index out of range">>
\* str(e) of the MemoryError raised by an allocation: the empty string
MemoryError == <<>>

(***************************************************************************)
(* Tags (masked values the code compares against, as bytes in buffer order)*)
(***************************************************************************)
TagAFS2 == <<65, 70, 83, 50>>       \* b'AFS2'
TagHCA  == <<72, 67, 65, 0>>        \* 0x00414348
TagFmt  == <<102, 109, 116, 0>>     \* 0x00746D66
TagComp == <<99, 111, 109, 112>>    \* 0x706D6F63
TagDec  == <<100, 101, 99, 0>>      \* 0x00636564
TagVbr  == <<118, 98, 114, 0>>      \* 0x00726276
TagAth  == <<97, 116, 104, 0>>      \* 0x00687461
TagLoop == <<108, 111, 111, 112>>   \* 0x706F6F6C
TagCiph == <<99, 105, 112, 104>>    \* 0x68706963
TagRva  == <<114, 118, 97, 0>>      \* 0x00617672
TagComm == <<99, 111, 109, 109>>    \* 0x6D6D6F63
TagPad  == <<112, 97, 100, 0>>      \* 0x00646170
TagZero == <<0, 0, 0, 0>>           \* 0

samples_per_block == 1024

(***************************************************************************)
(* The dataclasses.                                                        *)
(***************************************************************************)
\* duration_sec is the quotient total_samples / sample_rate, kept as the pair
\* <<dividend, divisor>>; 0.0 is <<0, 1>>.  volume is the four bytes of the
\* big-endian float; 1.0 is 0x3F800000.  error is "" as <<>>.
HCAMetadata(index, file_id, size) ==
    [index |-> index, file_id |-> file_id, size |-> size,
     version |-> 0, data_offset |-> 0,
     sample_rate |-> 0, channel_count |-> 0, block_count |-> 0, block_size |-> 0,
     duration_sec |-> <<0, 1>>, total_samples |-> 0,
     has_loop |-> FALSE, loop_start_block |-> 0, loop_end_block |-> 0,
     loop_count |-> 0, loop_start_sample |-> 0, loop_end_sample |-> 0,
     cipher_type |-> 0, is_encrypted |-> FALSE,
     volume |-> <<63, 128, 0, 0>>, comment |-> <<>>,
     is_valid |-> FALSE, error |-> <<>>]

AWBMetadata ==
    [magic |-> <<>>, file_count |-> 0, alignment |-> 0, embedded_key |-> 0,
     size_length |-> 0, tracks |-> <<>>, is_valid |-> FALSE, error |-> <<>>]

NoHca == HCAMetadata(0, 0, 0)

(***************************************************************************)
(* parse_hca: one audio stream header.  `return meta` and the `except`     *)
(* clause both hand the header back to parse_awb (pc = "append").          *)
(***************************************************************************)
HcaReturn(m, err) ==
    /\ hca' = [m EXCEPT !.error = err]
    /\ pc' = "append"
    /\ hpos' = hpos

\* magic, version and data offset
HcaMagic ==
    /\ pc = "hca_magic"
    /\ IF Len(hdata) < 8
       THEN HcaReturn(hca, <<"Data too small for HCA header">>)
       ELSE IF Mask7F(Word(hdata, 0)) # TagHCA
            THEN HcaReturn(hca, <<"Invalid HCA magic", Word(hdata, 0)>>)
            ELSE /\ hca' = [hca EXCEPT !.version = U16BE(hdata, 4),
                                       !.data_offset = U16BE(hdata, 6)]
                 /\ hpos' = 8
                 /\ pc' = "hca_fmt"
    /\ UNCHANGED <<data, awb, pos, file_ids, start, end, i, ranges, hdata, src, uvars, svars, evars>>

ChannelOk(ch) == 1 <= ch /\ ch <= 16
\* RateOk over the whole 24-bit field
RateOkWide(sr) == 1 <= sr /\ sr <= 16777215
RateOk(sr) == 1 <= sr /\ sr <= 8388607

\* the fmt chunk and its validation
HcaFmt ==
    /\ pc = "hca_fmt"
    /\ LET d  == hdata
           m1 == [hca EXCEPT !.channel_count = d[13],
                             !.sample_rate = 65536 * d[14] + 256 * d[15] + d[16]]
           m2 == [m1 EXCEPT !.block_count = U32BE(d, 16)]
       IN  IF ~CanRead(d, 8, 4) THEN HcaReturn(hca, StructError(4))
           ELSE IF Mask7F(Word(d, 8)) # TagFmt THEN HcaReturn(hca, <<"Missing fmt chunk">>)
           ELSE IF ~CanRead(d, 12, 4) THEN HcaReturn(hca, StructError(4))
           ELSE IF ~CanRead(d, 16, 4) THEN HcaReturn(m1, StructError(4))
           ELSE IF ~CanRead(d, 20, 2) THEN HcaReturn(m2, StructError(2))
           ELSE IF ~CanRead(d, 22, 2) THEN HcaReturn(m2, StructError(2))
           ELSE IF ~ChannelOk(m2.channel_count)
                THEN HcaReturn(m2, <<"Invalid channel count", m2.channel_count>>)
           ELSE IF ~RateOk(m2.sample_rate)
                THEN HcaReturn(m2, <<"Invalid sample rate", m2.sample_rate>>)
           ELSE /\ hca' = m2
                /\ hpos' = 24
                /\ pc' = "hca_comp"
    /\ UNCHANGED <<data, awb, pos, file_ids, start, end, i, ranges, hdata, src, uvars, svars, evars>>

\* the comp/dec chunk
HcaComp ==
    /\ pc = "hca_comp"
    /\ LET d == hdata
           comp_magic == Mask7F(Word(d, hpos))
       IN  IF ~CanRead(d, hpos, 4) THEN HcaReturn(hca, StructError(4))
           ELSE IF ~CanRead(d, hpos + 4, 2) THEN HcaReturn(hca, StructError(2))
           ELSE /\ hca' = [hca EXCEPT !.block_size = U16BE(d, hpos + 4)]
                /\ hpos' = hpos + 8 + (IF comp_magic = TagComp THEN 8
                                       ELSE IF comp_magic = TagDec THEN 4 ELSE 0)
                /\ pc' = "hca_scan"
    /\ UNCHANGED <<data, awb, pos, file_ids, start, end, i, ranges, hdata, src, uvars, svars, evars>>

\* One trailing chunk: m is the header so far, d the buffer, p the position
\* after the chunk's tag.  The result is the header, the position and where
\* control goes: on round the loop ("hca_scan"), break ("hca_finish") or the
\* except clause ("append").
Continue(m, p) == [meta |-> m, pos |-> p, next |-> "hca_scan"]
Break(m, p) == [meta |-> m, pos |-> p, next |-> "hca_finish"]
Raise(m, p, err) == [meta |-> [m EXCEPT !.error = err], pos |-> p, next |-> "append"]

ChunkVbr(m, d, p) == Continue(m, p + 4)

ChunkAth(m, d, p) == Continue(m, p + 2)

ChunkLoop(m, d, p) ==
    LET m1 == [m EXCEPT !.has_loop = TRUE]
        m2 == [m1 EXCEPT !.loop_start_block = U32BE(d, p)]
        m3 == [m2 EXCEPT !.loop_end_block = U32BE(d, p + 4)]
        m4 == [m3 EXCEPT !.loop_count = U16BE(d, p + 8)]
    IN  IF ~CanRead(d, p, 4) THEN Raise(m1, p, StructError(4))
        ELSE IF ~CanRead(d, p + 4, 4) THEN Raise(m2, p + 4, StructError(4))
        ELSE IF ~CanRead(d, p + 8, 2) THEN Raise(m3, p + 8, StructError(2))
        ELSE Continue(m4, p + 12)

\* ChunkCiph flagging every stream that has a cipher chunk
ChunkCiphAlways(m, d, p) ==
    IF ~CanRead(d, p, 2) THEN Raise(m, p, StructError(2))
    ELSE Continue([m EXCEPT !.cipher_type = U16BE(d, p), !.is_encrypted = TRUE], p + 2)

ChunkCiph(m, d, p) ==
    IF ~CanRead(d, p, 2) THEN Raise(m, p, StructError(2))
    ELSE LET c == U16BE(d, p)
         IN  Continue([m EXCEPT !.cipher_type = c, !.is_encrypted = (c # 0)], p + 2)

\* ChunkRva going on with the header unchanged when the volume is cut short
ChunkRvaShort(m, d, p) ==
    IF ~CanRead(d, p, 4) THEN Continue(m, p + 4)
    ELSE Continue([m EXCEPT !.volume = Word(d, p)], p + 4)

ChunkRva(m, d, p) ==
    IF ~CanRead(d, p, 4) THEN Raise(m, p, StructError(4))
    ELSE Continue([m EXCEPT !.volume = Word(d, p)], p + 4)

\* bytes.decode('utf-8', errors='replace') on single-byte sequences: an ASCII
\* byte is its own code point, any other lone byte becomes U+FFFD
Utf8Replace(bs) == [k \in 1..Len(bs) |-> IF bs[k] < 128 THEN bs[k] ELSE 65533]

RECURSIVE RStripNul(_)
RStripNul(s) ==
    IF s # <<>> /\ s[Len(s)] = 0 THEN RStripNul(SubSeq(s, 1, Len(s) - 1)) ELSE s

ChunkComm(m, d, p) ==
    IF p >= Len(d) THEN Raise(m, p, IndexError)
    ELSE LET comm_len == d[p + 1]
             q == p + 1
         IN  IF comm_len > 0 /\ q + comm_len <= Len(d)
             THEN Continue([m EXCEPT !.comment =
                               RStripNul(Utf8Replace(Slice(d, q, q + comm_len)))],
                           q + comm_len)
             ELSE Continue(m, q)

ChunkPad(m, d, p) == Break(m, p)

ChunkEnd(m, d, p) == Break(m, p)

\* ChunkUnknown skipping a guessed four bytes and going on
ChunkUnknownSkip(m, d, p) == Continue(m, p + 4)

ChunkUnknown(m, d, p) == Break(m, p)

Dispatch(m, d, p, chunk_id) ==
    IF chunk_id = TagVbr THEN ChunkVbr(m, d, p)
    ELSE IF chunk_id = TagAth THEN ChunkAth(m, d, p)
    ELSE IF chunk_id = TagLoop THEN ChunkLoop(m, d, p)
    ELSE IF chunk_id = TagCiph THEN ChunkCiph(m, d, p)
    ELSE IF chunk_id = TagRva THEN ChunkRva(m, d, p)
    ELSE IF chunk_id = TagComm THEN ChunkComm(m, d, p)
    ELSE IF chunk_id = TagPad THEN ChunkPad(m, d, p)
    ELSE IF chunk_id = TagZero THEN ChunkEnd(m, d, p)
    ELSE ChunkUnknown(m, d, p)

\* the condition of the chunk loop
ScanCond == hpos + 4 <= hca.data_offset /\ hpos + 4 <= Len(hdata)

\* one iteration of the chunk loop, or its exit
HcaScan ==
    /\ pc = "hca_scan"
    /\ IF ScanCond
       THEN LET r == Dispatch(hca, hdata, hpos + 4, Mask7F(Word(hdata, hpos)))
            IN  /\ hca' = r.meta
                /\ hpos' = r.pos
                /\ pc' = r.next
       ELSE /\ pc' = "hca_finish"
            /\ UNCHANGED <<hca, hpos>>
    /\ UNCHANGED <<data, awb, pos, file_ids, start, end, i, ranges, hdata, src, uvars, svars, evars>>

\* HcaFinish with the duration taken from the block count, not the samples
HcaFinishPerBlock ==
    /\ pc = "hca_finish"
    /\ LET total == hca.block_count * samples_per_block
           m1 == [hca EXCEPT !.total_samples = total]
           m2 == IF m1.sample_rate > 0
                 THEN [m1 EXCEPT !.duration_sec = <<m1.block_count, m1.sample_rate>>]
                 ELSE m1
           m3 == IF m2.has_loop
                 THEN [m2 EXCEPT
                         !.loop_start_sample = m2.loop_start_block * samples_per_block,
                         !.loop_end_sample = m2.loop_end_block * samples_per_block]
                 ELSE m2
       IN  hca' = [m3 EXCEPT !.is_valid = TRUE]
    /\ pc' = "append"
    /\ UNCHANGED <<data, awb, pos, file_ids, start, end, i, ranges, hdata, hpos, src, uvars, svars, evars>>

\* HcaFinish with the loop points left in blocks
HcaFinishLoopBlocks ==
    /\ pc = "hca_finish"
    /\ LET total == hca.block_count * samples_per_block
           m1 == [hca EXCEPT !.total_samples = total]
           m2 == IF m1.sample_rate > 0
                 THEN [m1 EXCEPT !.duration_sec = <<total, m1.sample_rate>>]
                 ELSE m1
           m3 == IF m2.has_loop
                 THEN [m2 EXCEPT
                         !.loop_start_sample = m2.loop_start_block,
                         !.loop_end_sample = m2.loop_end_block]
                 ELSE m2
       IN  hca' = [m3 EXCEPT !.is_valid = TRUE]
    /\ pc' = "append"
    /\ UNCHANGED <<data, awb, pos, file_ids, start, end, i, ranges, hdata, hpos, src, uvars, svars, evars>>

\* duration, loop points, validity
HcaFinish ==
    /\ pc = "hca_finish"
    /\ LET total == hca.block_count * samples_per_block
           m1 == [hca EXCEPT !.total_samples = total]
           m2 == IF m1.sample_rate > 0
                 THEN [m1 EXCEPT !.duration_sec = <<total, m1.sample_rate>>]
                 ELSE m1
           m3 == IF m2.has_loop
                 THEN [m2 EXCEPT
                         !.loop_start_sample = m2.loop_start_block * samples_per_block,
                         !.loop_end_sample = m2.loop_end_block * samples_per_block]
                 ELSE m2
       IN  hca' = [m3 EXCEPT !.is_valid = TRUE]
    /\ pc' = "append"
    /\ UNCHANGED <<data, awb, pos, file_ids, start, end, i, ranges, hdata, hpos, src, uvars, svars, evars>>

(***************************************************************************)
(* parse_awb: the archive index.                                           *)
(***************************************************************************)
\* Align without the test of the remainder: an aligned offset moves a whole step
AlignNoTest(s, alignment) ==
    IF alignment > 0 THEN s + alignment - (s % alignment) ELSE s

\* Align rounding down instead of up
AlignDown(s, alignment) ==
    IF alignment > 0 THEN s - (s % alignment) ELSE s

\* round start up to the next multiple of alignment
Align(s, alignment) ==
    IF alignment > 0
    THEN LET mod == s % alignment
         IN  IF mod # 0 THEN s + alignment - mod ELSE s
    ELSE s

\* `return meta` with an error, and the except clause
AwbReturn(m, err) ==
    /\ awb' = [m EXCEPT !.error = err]
    /\ pc' = "done"

\* size check, magic and the fixed header fields
AwbOpen ==
    /\ pc = "open"
    /\ IF Len(data) < 16
       THEN AwbReturn(awb, <<"File too small">>) /\ pos' = pos
       ELSE IF Slice(data, 0, 4) # TagAFS2
            THEN AwbReturn(awb, <<"Invalid magic", Slice(data, 0, 4)>>) /\ pos' = pos
            ELSE /\ awb' = [awb EXCEPT !.magic = TagAFS2,
                                       !.size_length = data[6],
                                       !.file_count = U32LE(data, 8),
                                       !.alignment = U16LE(data, 12),
                                       !.embedded_key = U16LE(data, 14)]
                 /\ pos' = 16
                 /\ pc' = "ids"
    /\ UNCHANGED <<data, file_ids, start, end, i, ranges, hdata, hca, hpos, src, uvars, svars, evars>>

\* the loop reading the file ids
AwbReadIds ==
    /\ pc = "ids"
    /\ IF ~CanRead(data, pos, 2 * awb.file_count)
       THEN AwbReturn(awb, StructError(2)) /\ UNCHANGED <<file_ids, pos>>
       ELSE /\ file_ids' = [k \in 1..awb.file_count |-> U16LE(data, pos + 2 * (k - 1))]
            /\ pos' = pos + 2 * awb.file_count
            /\ pc' = "offsets"
            /\ awb' = awb
    /\ UNCHANGED <<data, start, end, i, ranges, hdata, hca, hpos, src, uvars, svars, evars>>

\* one size field of the declared width at p
SizeField(d, p, size_length) == IF size_length = 2 THEN U16LE(d, p) ELSE U32LE(d, p)

\* AwbFirstOffset without the else branch: any width but 2 is read as 4
AwbFirstOffsetAnyWidth ==
    /\ pc = "offsets"
    /\ IF ~CanRead(data, pos, IF awb.size_length = 2 THEN 2 ELSE 4)
       THEN AwbReturn(awb, StructError(IF awb.size_length = 2 THEN 2 ELSE 4))
            /\ UNCHANGED <<start, pos, i>>
       ELSE /\ start' = Align(SizeField(data, pos, awb.size_length), awb.alignment)
            /\ pos' = pos + (IF awb.size_length = 2 THEN 2 ELSE 4)
            /\ i' = 0
            /\ pc' = "loop"
            /\ awb' = awb
    /\ UNCHANGED <<data, file_ids, end, ranges, hdata, hca, hpos, src, uvars, svars, evars>>

\* the first offset and its alignment
AwbFirstOffset ==
    /\ pc = "offsets"
    /\ IF awb.size_length \notin {2, 4}
       THEN AwbReturn(awb, <<"Unknown size length", awb.size_length>>)
            /\ UNCHANGED <<start, pos, i>>
       ELSE IF ~CanRead(data, pos, awb.size_length)
            THEN AwbReturn(awb, StructError(awb.size_length)) /\ UNCHANGED <<start, pos, i>>
            ELSE /\ start' = Align(SizeField(data, pos, awb.size_length), awb.alignment)
                 /\ pos' = pos + awb.size_length
                 /\ i' = 0
                 /\ pc' = "loop"
                 /\ awb' = awb
    /\ UNCHANGED <<data, file_ids, end, ranges, hdata, hca, hpos, src, uvars, svars, evars>>

\* an iteration of the entry loop up to the call of parse_hca
AwbEntry ==
    /\ pc = "loop"
    /\ i < awb.file_count
    /\ IF ~CanRead(data, pos, awb.size_length)
       THEN AwbReturn(awb, StructError(awb.size_length))
            /\ UNCHANGED <<pos, end, hdata, hca, hpos>>
       ELSE LET e == SizeField(data, pos, awb.size_length)
                file_data == Slice(data, start, e)
            IN  /\ end' = e
                /\ pos' = pos + awb.size_length
                /\ hdata' = file_data
                /\ hca' = HCAMetadata(i, IF i < Len(file_ids) THEN file_ids[i + 1] ELSE i,
                                      Len(file_data))
                /\ hpos' = 0
                /\ pc' = "hca_magic"
                /\ awb' = awb
    /\ UNCHANGED <<data, file_ids, start, i, ranges, src, uvars, svars, evars>>

\* AwbAppend giving up the archive at the first header that failed to decode
AwbAppendStop ==
    /\ pc = "append"
    /\ awb' = [awb EXCEPT !.tracks = Append(@, [hca EXCEPT !.size = end - start]),
                          !.error = IF hca.is_valid THEN @ ELSE hca.error]
    /\ ranges' = Append(ranges, <<start, end>>)
    /\ start' = Align(end, awb.alignment)
    /\ i' = i + 1
    /\ pc' = IF hca.is_valid THEN "loop" ELSE "done"
    /\ UNCHANGED <<data, pos, file_ids, end, hdata, hca, hpos, src, uvars, svars, evars>>

\* AwbAppend leaving the size parse_hca set (the length of the slice)
AwbAppendKeepSize ==
    /\ pc = "append"
    /\ awb' = [awb EXCEPT !.tracks = Append(@, hca)]
    /\ ranges' = Append(ranges, <<start, end>>)
    /\ start' = Align(end, awb.alignment)
    /\ i' = i + 1
    /\ pc' = "loop"
    /\ UNCHANGED <<data, pos, file_ids, end, hdata, hca, hpos, src, uvars, svars, evars>>

\* the rest of the iteration, after parse_hca returned
AwbAppend ==
    /\ pc = "append"
    /\ awb' = [awb EXCEPT !.tracks = Append(@, [hca EXCEPT !.size = end - start])]
    /\ ranges' = Append(ranges, <<start, end>>)
    /\ start' = Align(end, awb.alignment)
    /\ i' = i + 1
    /\ pc' = "loop"
    /\ UNCHANGED <<data, pos, file_ids, end, hdata, hca, hpos, src, uvars, svars, evars>>

\* the entry loop is over
AwbFinish ==
    /\ pc = "loop"
    /\ i >= awb.file_count
    /\ awb' = [awb EXCEPT !.is_valid = TRUE]
    /\ pc' = "done"
    /\ UNCHANGED <<data, pos, file_ids, start, end, i, ranges, hdata, hca, hpos, src, uvars, svars, evars>>

(***************************************************************************)
(* Values of a decoded table.  A Python value is kept as the pair of its   *)
(* type and its content: None, an int, a str (code points), bytes, a       *)
(* nested table (dict), and the numbers that do not fit 32 bits (64-bit    *)
(* integers, floats) as the bytes they were unpacked from.                 *)
(***************************************************************************)
\* a local assignment: v is computed once and handed to F
With(v, F(_)) == CHOOSE r \in {F(x) : x \in {v}} : TRUE

None == [t |-> "none", v |-> <<>>]
IntVal(n) == [t |-> "int", v |-> <<n>>]
StrVal(s) == [t |-> "str", v |-> s]
BytesVal(b) == [t |-> "bytes", v |-> b]
TableVal(tbl) == [t |-> "table", v |-> <<tbl>>]
PackedVal(fmt, b) == [t |-> fmt, v |-> b]

\* bool(value)
Truthy(val) ==
    IF val.t = "none" THEN FALSE
    ELSE IF val.t = "int" THEN val.v[1] # 0
    ELSE IF val.t \in {"str", "bytes"} THEN val.v # <<>>
    ELSE IF val.t = "table" THEN TRUE
    ELSE IF val.t \in {"q", "Q"} THEN \E k \in 1..Len(val.v) : val.v[k] # 0
    ELSE \E k \in 1..Len(val.v) : val.v[k] # 0 /\ ~(k = 1 /\ val.v[k] = 128)

\* a dict as the sequence of its items in insertion order
DictHas(dict, key) == \E k \in 1..Len(dict) : dict[k].key = key

DictGet(dict, key, default) ==
    IF DictHas(dict, key)
    THEN dict[CHOOSE k \in 1..Len(dict) : dict[k].key = key].value
    ELSE default

\* dict[key] = value
DictSet(dict, key, value) ==
    IF DictHas(dict, key)
    THEN [k \in 1..Len(dict) |->
            IF dict[k].key = key THEN [key |-> key, value |-> value] ELSE dict[k]]
    ELSE Append(dict, [key |-> key, value |-> value])

ACBMetadata ==
    [name |-> StrVal(<<>>), version |-> IntVal(0), cue_count |-> 0, waveform_count |-> 0,
     cue_names |-> <<>>, waveforms |-> <<>>, stream_awb_names |-> <<>>,
     has_memory_awb |-> FALSE, memory_awb_size |-> 0,
     is_valid |-> FALSE, error |-> <<>>]

(***************************************************************************)
(* parse_utf: one table.  The result is None, the table, or the exception  *)
(* that left the function.                                                 *)
(***************************************************************************)
TagUTF == <<64, 85, 84, 70>>        \* b'@UTF'

UtfNone == [st |-> "none", err |-> <<>>, table |-> <<>>]
UtfRaise(err) == [st |-> "raise", err |-> err, table |-> <<>>]
UtfOk(tbl) == [st |-> "ok", err |-> <<>>, table |-> <<tbl>>]
UtfRunning == [st |-> "running", err |-> <<>>, table |-> <<>>]

S8(b) == IF b >= 128 THEN b - 256 ELSE b
S16BE(d, p) == 256 * S8(d[p + 1]) + d[p + 2]
S32BE(d, p) == 16777216 * S8(d[p + 1]) + 65536 * d[p + 2] + 256 * d[p + 3] + d[p + 4]

RECURSIVE find_zero(_, _)
find_zero(d, s) ==
    IF s < Len(d) /\ d[s + 1] # 0 THEN find_zero(d, s + 1) ELSE s

\* data[p:find_zero(data, p)].decode('utf-8', errors='replace')
StringAt(d, p) == Utf8Replace(Slice(d, p, find_zero(d, p)))

\* the fields of the sub-header after the data size, relative to base
HeaderReads == <<<<0, 2>>, <<2, 2>>, <<4, 4>>, <<8, 4>>, <<12, 4>>, <<16, 2>>, <<18, 2>>, <<20, 4>>>>

\* TooSmall asking for the magic only
TooSmallForMagic(d, offset) == Len(d) < offset + 4

\* the buffer cannot hold the magic and the data size
TooSmall(d, offset) == Len(d) < offset + 8

\* magic and sub-header: None, the exception of the first short read, or
\* the header fields with the positions the row loop starts from
UtfHeader(d, offset) ==
    LET base == offset + 8
        short == {k \in 1..Len(HeaderReads) :
                    ~CanRead(d, base + HeaderReads[k][1], HeaderReads[k][2])}
        first == CHOOSE k \in short : \A j \in short : k <= j
        string_offset == U32BE(d, base + 4)
        name_offset == U32BE(d, base + 12)
    IN  IF TooSmall(d, offset) THEN [st |-> "none", err |-> <<>>, h |-> <<>>]
        ELSE IF Slice(d, offset, offset + 4) # TagUTF
             THEN [st |-> "none", err |-> <<>>, h |-> <<>>]
        ELSE IF short # {}
             THEN [st |-> "raise", err |-> StructError(HeaderReads[first][2]), h |-> <<>>]
        ELSE [st |-> "ok", err |-> <<>>,
              h |-> [base |-> base,
                     value_offset |-> U16BE(d, base + 2),
                     string_offset |-> string_offset,
                     data_offset |-> U32BE(d, base + 8),
                     element_count |-> U16BE(d, base + 16),
                     value_size |-> U16BE(d, base + 18),
                     page_count |-> U32BE(d, base + 20),
                     string_base |-> base + string_offset,
                     table_name |-> StringAt(d, base + string_offset + name_offset),
                     first_pos |-> base + 24,
                     value_pos |-> base + U16BE(d, base + 2)]]

\* the width a value of the type takes where it is read
TypeWidth(value_type) ==
    IF value_type \in {16, 17} THEN 1
    ELSE IF value_type \in {18, 19} THEN 2
    ELSE IF value_type \in {20, 21, 24, 26} THEN 4
    ELSE IF value_type \in {22, 23, 25, 27} THEN 8
    ELSE 0

ColOk(key, value, p, vp) ==
    [st |-> "ok", err |-> <<>>, key |-> key, value |-> value, pos |-> p, value_pos |-> vp]
\* ColRaise with the exception swallowed: the column has no value
ColRaiseSwallowed(err) ==
    [st |-> "ok", err |-> <<>>, key |-> <<>>, value |-> None, pos |-> 0, value_pos |-> 0]

ColRaise(err) ==
    [st |-> "raise", err |-> err, key |-> <<>>, value |-> None, pos |-> 0, value_pos |-> 0]

RECURSIVE parse_utf(_, _)
RECURSIVE UtfElems(_, _, _, _, _, _)
RECURSIVE UtfPages(_, _, _, _, _)

\* BufData with the blob region counted from the data size field, four
\* bytes before base
BufDataFromSize(d, h, rp) ==
    LET buf_start == h.base - 4 + h.data_offset + U32BE(d, rp)
    IN  Slice(d, buf_start, buf_start + U32BE(d, rp + 4))

\* buf_data: the slice of a blob whose offset and length are at rp
BufData(d, h, rp) ==
    LET buf_start == h.base + h.data_offset + U32BE(d, rp)
    IN  Slice(d, buf_start, buf_start + U32BE(d, rp + 4))

\* the value of a blob whose offset and length are at rp
BlobValue(d, h, rp) ==
    LET buf_data == BufData(d, h, rp)
    IN  With(parse_utf(buf_data, 0), LAMBDA nested :
            IF nested.st = "raise" THEN [st |-> "raise", err |-> nested.err, value |-> None]
            ELSE IF nested.st = "ok"
                 THEN [st |-> "ok", err |-> <<>>, value |-> TableVal(nested.table[1])]
            ELSE [st |-> "ok", err |-> <<>>, value |-> BytesVal(buf_data)])

\* the value of the type read at rp
ReadValue(d, h, value_type, rp) ==
    LET Got(val) == [st |-> "ok", err |-> <<>>, value |-> val]
        Fail(err) == [st |-> "raise", err |-> err, value |-> None]
        w == TypeWidth(value_type)
    IN  IF value_type = 17
        THEN (IF rp >= Len(d) THEN Fail(IndexError) ELSE Got(IntVal(d[rp + 1])))
        ELSE IF value_type = 27
        THEN (IF ~CanRead(d, rp, 4) \/ ~CanRead(d, rp + 4, 4) THEN Fail(StructError(4))
              ELSE BlobValue(d, h, rp))
        ELSE IF w = 0 THEN Got(None)
        ELSE IF ~CanRead(d, rp, w) THEN Fail(StructError(w))
        ELSE IF value_type = 16 THEN Got(IntVal(S8(d[rp + 1])))
        ELSE IF value_type = 18 THEN Got(IntVal(S16BE(d, rp)))
        ELSE IF value_type = 19 THEN Got(IntVal(U16BE(d, rp)))
        ELSE IF value_type = 20 THEN Got(IntVal(S32BE(d, rp)))
        ELSE IF value_type = 21 THEN Got(IntVal(U32BE(d, rp)))
        ELSE IF value_type = 22 THEN Got(PackedVal("q", Slice(d, rp, rp + 8)))
        ELSE IF value_type = 23 THEN Got(PackedVal("Q", Slice(d, rp, rp + 8)))
        ELSE IF value_type = 24 THEN Got(PackedVal("f", Slice(d, rp, rp + 4)))
        ELSE IF value_type = 25 THEN Got(PackedVal("d", Slice(d, rp, rp + 8)))
        ELSE Got(StrVal(StringAt(d, h.string_base + U32BE(d, rp))))

\* ReadColumn starting every row's values at the value region again
ReadColumnRewind(d, h, p, vp) ==
    IF p >= Len(d) THEN ColRaise(IndexError)
    ELSE IF ~CanRead(d, p + 1, 4) THEN ColRaise(StructError(4))
    ELSE LET type_byte == d[p + 1]
             key == StringAt(d, h.string_base + U32BE(d, p + 1))
             method == (type_byte \div 32) % 8
             value_type == type_byte % 32
             start_vp == IF p = h.first_pos THEN h.value_pos ELSE vp
             read_pos == IF method = 1 THEN p + 5 ELSE start_vp
             after == read_pos + TypeWidth(value_type)
         IN  IF method = 0 THEN ColOk(key, None, p + 5, start_vp)
             ELSE With(ReadValue(d, h, value_type, read_pos), LAMBDA r :
                     IF r.st = "raise" THEN ColRaise(r.err)
                     ELSE IF method = 1 THEN ColOk(key, r.value, after, start_vp)
                     ELSE ColOk(key, r.value, p + 5, after))

\* one column of one row: p is the schema position, vp the value cursor
ReadColumn(d, h, p, vp) ==
    IF p >= Len(d) THEN ColRaise(IndexError)
    ELSE IF ~CanRead(d, p + 1, 4) THEN ColRaise(StructError(4))
    ELSE LET type_byte == d[p + 1]
             key == StringAt(d, h.string_base + U32BE(d, p + 1))
             method == (type_byte \div 32) % 8
             value_type == type_byte % 32
             read_pos == IF method = 1 THEN p + 5 ELSE vp
             after == read_pos + TypeWidth(value_type)
         IN  IF method = 0 THEN ColOk(key, None, p + 5, vp)
             ELSE With(ReadValue(d, h, value_type, read_pos), LAMBDA r :
                     IF r.st = "raise" THEN ColRaise(r.err)
                     ELSE IF method = 1 THEN ColOk(key, r.value, after, vp)
                     ELSE ColOk(key, r.value, p + 5, after))

\* the columns e.. of one row
UtfElems(d, h, e, p, vp, row) ==
    IF e >= h.element_count
    THEN [st |-> "ok", err |-> <<>>, page |-> row, value_pos |-> vp]
    ELSE With(ReadColumn(d, h, p, vp), LAMBDA c :
            IF c.st = "raise"
            THEN [st |-> "raise", err |-> c.err, page |-> <<>>, value_pos |-> vp]
            ELSE With(DictSet(row, c.key, c.value), LAMBDA filled :
                    UtfElems(d, h, e + 1, c.pos, c.value_pos, filled)))

UtfTable(h, rows) ==
    [name |-> h.table_name, pages |-> rows,
     page_count |-> h.page_count, element_count |-> h.element_count]

\* the rows r.. of the table
UtfPages(d, h, r, vp, rows) ==
    IF r >= h.page_count THEN UtfOk(UtfTable(h, rows))
    ELSE With(UtfElems(d, h, 0, h.first_pos, vp, <<>>), LAMBDA e :
            IF e.st = "raise" THEN UtfRaise(e.err)
            ELSE IF Len(rows) >= MemRows THEN UtfRaise(MemoryError)
            ELSE With(Append(rows, e.page), LAMBDA more :
                    UtfPages(d, h, r + 1, e.value_pos, more)))

parse_utf(d, offset) ==
    With(UtfHeader(d, offset), LAMBDA hr :
        IF hr.st = "none" THEN UtfNone
        ELSE IF hr.st = "raise" THEN UtfRaise(hr.err)
        ELSE UtfPages(d, hr.h, 0, hr.h.value_pos, <<>>))

\* the column names parse_acb looks up, as code points
KeyName == <<78, 97, 109, 101>>   \* 'Name'
KeyVersion == <<86, 101, 114, 115, 105, 111, 110>>   \* 'Version'
KeyCueNameTable == <<67, 117, 101, 78, 97, 109, 101, 84, 97, 98, 108, 101>>   \* 'CueNameTable'
KeyCueName == <<67, 117, 101, 78, 97, 109, 101>>   \* 'CueName'
KeyWaveformTable == <<87, 97, 118, 101, 102, 111, 114, 109, 84, 97, 98, 108, 101>>   \* 'WaveformTable'
KeyId == <<73, 100>>   \* 'Id'
KeyStreaming == <<83, 116, 114, 101, 97, 109, 105, 110, 103>>   \* 'Streaming'
KeyEncodeType == <<69, 110, 99, 111, 100, 101, 84, 121, 112, 101>>   \* 'EncodeType'
KeyMemoryAwbId == <<77, 101, 109, 111, 114, 121, 65, 119, 98, 73, 100>>   \* 'MemoryAwbId'
KeyStreamAwbId == <<83, 116, 114, 101, 97, 109, 65, 119, 98, 73, 100>>   \* 'StreamAwbId'
KeyStreamAwbPortNo == <<83, 116, 114, 101, 97, 109, 65, 119, 98, 80, 111, 114, 116, 78, 111>>   \* 'StreamAwbPortNo'
KeyAwbFile == <<65, 119, 98, 70, 105, 108, 101>>   \* 'AwbFile'
KeyStreamAwbHash == <<83, 116, 114, 101, 97, 109, 65, 119, 98, 72, 97, 115, 104>>   \* 'StreamAwbHash'

(***************************************************************************)
(* parse_acb: the outermost table is decoded step by step (one step per    *)
(* row and per column); the tables nested in its blobs are decoded by      *)
(* parse_utf inside the step of their column.                              *)
(***************************************************************************)
\* parse_utf has returned or raised: control is back in parse_acb
UtfReturn(returned) ==
    /\ utf' = returned
    /\ upc' = "acb_project"

\* open and read the file, then magic and sub-header of the table
AcbRead ==
    /\ upc = "acb_read"
    /\ \E hr \in {UtfHeader(udata, 0)} :
           IF hr.st = "none"
           THEN UtfReturn(UtfNone) /\ UNCHANGED <<uhdr, upos, value_pos, page_idx, pages>>
           ELSE IF hr.st = "raise"
           THEN UtfReturn(UtfRaise(hr.err))
                /\ UNCHANGED <<uhdr, upos, value_pos, page_idx, pages>>
           ELSE /\ uhdr' = hr.h
                /\ upos' = hr.h.first_pos
                /\ value_pos' = hr.h.value_pos
                /\ page_idx' = 0
                /\ pages' = <<>>
                /\ upc' = "utf_page"
                /\ utf' = utf
    /\ UNCHANGED <<awbvars, svars, evars, udata, elem_idx, page, acb, usrc>>

\* UtfPage with the schema position carried over from the row before
UtfPageNoReset ==
    /\ upc = "utf_page"
    /\ IF page_idx < uhdr.page_count
       THEN /\ upos' = upos
            /\ page' = <<>>
            /\ elem_idx' = 0
            /\ upc' = "utf_elem"
            /\ utf' = utf
       ELSE /\ UtfReturn(UtfOk(UtfTable(uhdr, pages)))
            /\ UNCHANGED <<upos, page, elem_idx>>
    /\ UNCHANGED <<awbvars, svars, evars, udata, uhdr, value_pos, page_idx, pages, acb, usrc>>

\* head of the row loop, or the return of the table
UtfPage ==
    /\ upc = "utf_page"
    /\ IF page_idx < uhdr.page_count
       THEN /\ upos' = uhdr.first_pos
            /\ page' = <<>>
            /\ elem_idx' = 0
            /\ upc' = "utf_elem"
            /\ utf' = utf
       ELSE /\ UtfReturn(UtfOk(UtfTable(uhdr, pages)))
            /\ UNCHANGED <<upos, page, elem_idx>>
    /\ UNCHANGED <<awbvars, svars, evars, udata, uhdr, value_pos, page_idx, pages, acb, usrc>>

\* one column of the current row
UtfElem ==
    /\ upc = "utf_elem"
    /\ elem_idx < uhdr.element_count
    /\ \E c \in {ReadColumn(udata, uhdr, upos, value_pos)} :
           IF c.st = "raise"
           THEN UtfReturn(UtfRaise(c.err)) /\ UNCHANGED <<upos, value_pos, page, elem_idx>>
           ELSE /\ page' = DictSet(page, c.key, c.value)
                /\ upos' = c.pos
                /\ value_pos' = c.value_pos
                /\ elem_idx' = elem_idx + 1
                /\ UNCHANGED <<upc, utf>>
    /\ UNCHANGED <<awbvars, svars, evars, udata, uhdr, page_idx, pages, acb, usrc>>

\* the row is complete
UtfPageEnd ==
    /\ upc = "utf_elem"
    /\ elem_idx >= uhdr.element_count
    /\ IF Len(pages) >= MemRows
       THEN UtfReturn(UtfRaise(MemoryError)) /\ UNCHANGED <<pages, page_idx>>
       ELSE /\ pages' = Append(pages, page)
            /\ page_idx' = page_idx + 1
            /\ upc' = "utf_page"
            /\ utf' = utf
    /\ UNCHANGED <<awbvars, svars, evars, udata, uhdr, upos, value_pos, elem_idx, page, acb, usrc>>

\* the rows of a value that is a table, none for any other value
PagesOf(val) == IF val.t = "table" THEN val.v[1].pages ELSE <<>>

\* the truthy page.get(key, '') of the rows
NamesOf(rows, key) ==
    SelectSeq([k \in 1..Len(rows) |-> DictGet(rows[k], key, StrVal(<<>>))], Truthy)

Waveform(row) ==
    [id |-> DictGet(row, KeyId, IntVal(0)),
     streaming |-> DictGet(row, KeyStreaming, IntVal(0)),
     encode_type |-> DictGet(row, KeyEncodeType, IntVal(0)),
     memory_awb_id |-> DictGet(row, KeyMemoryAwbId, IntVal(0)),
     stream_awb_id |-> DictGet(row, KeyStreamAwbId, IntVal(0)),
     stream_awb_port |-> DictGet(row, KeyStreamAwbPortNo, IntVal(0))]

\* HasMemoryAwb counting a blob that holds a table
HasMemoryAwbAnyBlob(awb_file) ==
    awb_file.t \in {"bytes", "table"} /\ Len(awb_file.v) > 0

\* isinstance(awb_file, bytes) and len(awb_file) > 0
HasMemoryAwb(awb_file) == awb_file.t = "bytes" /\ Len(awb_file.v) > 0

\* the fields parse_acb takes from the root row
Project(meta, root) ==
    LET cue_names == NamesOf(PagesOf(DictGet(root, KeyCueNameTable, None)), KeyCueName)
        wrows == PagesOf(DictGet(root, KeyWaveformTable, None))
        waveforms == [k \in 1..Len(wrows) |-> Waveform(wrows[k])]
        awb_file == DictGet(root, KeyAwbFile, None)
        has == HasMemoryAwb(awb_file)
    IN  [meta EXCEPT
           !.name = DictGet(root, KeyName, StrVal(<<>>)),
           !.version = DictGet(root, KeyVersion, IntVal(0)),
           !.cue_names = cue_names,
           !.cue_count = Len(cue_names),
           !.waveforms = waveforms,
           !.waveform_count = Len(waveforms),
           !.has_memory_awb = has,
           !.memory_awb_size = IF has THEN Len(awb_file.v) ELSE 0,
           !.stream_awb_names =
               NamesOf(PagesOf(DictGet(root, KeyStreamAwbHash, None)), KeyName),
           !.is_valid = TRUE]

\* the rest of parse_acb, and its except clause
AcbProject ==
    /\ upc = "acb_project"
    /\ acb' = IF utf.st = "raise" THEN [acb EXCEPT !.error = utf.err]
              ELSE IF utf.st = "none" \/ utf.table[1].pages = <<>>
              THEN [acb EXCEPT !.error = <<"Failed to parse UTF table">>]
              ELSE Project(acb, utf.table[1].pages[1])
    /\ upc' = "acb_done"
    /\ UNCHANGED <<awbvars, svars, evars, udata, uhdr, upos, value_pos, page_idx, elem_idx, page, pages,
                   utf, usrc>>

(***************************************************************************)
(* The input files.  They are written here the way a muxer would write     *)
(* them, from a description (src), with definitions of their own: nothing  *)
(* below is used by the decoder above, and nothing above is used below.    *)
(***************************************************************************)
LE16(n) == <<n % 256, (n \div 256) % 256>>
LE32(n) == <<n % 256, (n \div 256) % 256, (n \div 65536) % 256, (n \div 16777216) % 256>>
BE16(n) == <<(n \div 256) % 256, n % 256>>
BE24(n) == <<(n \div 65536) % 256, (n \div 256) % 256, n % 256>>
BE32(n) == <<(n \div 16777216) % 256, (n \div 65536) % 256, (n \div 256) % 256, n % 256>>
Fill(b, n) == [k \in 1..n |-> b]
Prefix(s, n) == IF n >= Len(s) THEN s ELSE SubSeq(s, 1, n)

\* a tag with bit 7 set on the bytes whose position is in hi
HiBits(tag, hi) == [k \in 1..4 |-> IF k \in hi THEN tag[k] + 128 ELSE tag[k]]

\* the kinds of trailing chunk the inputs use, and their bytes
ChunkKinds ==
    {"vbr", "ath", "loop", "ciph0", "ciph56", "ciphhi", "rva", "comm", "comm0",
     "commlong", "pad", "zero", "unk"}

ChunkBytes(kind) ==
    CASE kind = "vbr"      -> <<118, 98, 114, 0>> \o <<0, 1, 0, 2>>
      [] kind = "ath"      -> <<97, 116, 104, 0>> \o <<0, 1>>
      [] kind = "loop"     -> <<108, 111, 111, 112>> \o BE32(1) \o BE32(2) \o BE16(3) \o <<0, 0>>
      [] kind = "ciph0"    -> <<99, 105, 112, 104>> \o BE16(0)
      [] kind = "ciph56"   -> <<99, 105, 112, 104>> \o BE16(56)
      [] kind = "ciphhi"   -> <<227, 233, 240, 232>> \o BE16(257)
      [] kind = "rva"      -> <<114, 118, 97, 0>> \o <<64, 0, 0, 0>>
      [] kind = "comm"     -> <<99, 111, 109, 109>> \o <<3, 104, 105, 0>>
      [] kind = "comm0"    -> <<99, 111, 109, 109>> \o <<0>>
      [] kind = "commlong" -> <<99, 111, 109, 109>> \o <<255>>
      [] kind = "pad"      -> <<112, 97, 100, 0>> \o <<0, 0>>
      [] kind = "zero"     -> <<0, 0, 0, 0>>
      [] kind = "unk"      -> <<120, 121, 122, 122>> \o <<0, 4>>

RECURSIVE ChunksBytes(_)
ChunksBytes(cs) == IF cs = <<>> THEN <<>> ELSE ChunkBytes(Head(cs)) \o ChunksBytes(Tail(cs))

CompBytes(comp) ==
    CASE comp = "comp" -> <<99, 111, 109, 112>> \o BE16(256) \o <<1, 15>> \o Fill(1, 8)
      [] comp = "dec"  -> <<100, 101, 99, 0>> \o BE16(256) \o <<1, 15>> \o Fill(1, 4)
      [] comp = "none" -> <<113, 113, 113, 113>> \o BE16(256) \o <<1, 15>>

\* A stream description: the magic and its high bits, the fmt tag, channel
\* count, sample rate, block count, the comp variant, the trailing chunks,
\* dataoff (the declared data offset, -1 for the true header length), the
\* number of audio bytes after the header, and cut (the stream is cut to
\* that many bytes, -1 for uncut).
Stream(magic, hi, fmt, ch, sr, blocks, comp, chunks, dataoff, audio, cut) ==
    [magic |-> magic, hi |-> hi, fmt |-> fmt, ch |-> ch, sr |-> sr, blocks |-> blocks,
     comp |-> comp, chunks |-> chunks, dataoff |-> dataoff, audio |-> audio, cut |-> cut]

HeaderLen(s) == 24 + Len(CompBytes(s.comp)) + Len(ChunksBytes(s.chunks))

StreamBytes(s) ==
    LET whole == HiBits(s.magic, s.hi) \o BE16(512)
                 \o BE16(IF s.dataoff < 0 THEN HeaderLen(s) ELSE s.dataoff)
                 \o s.fmt \o <<s.ch>> \o BE24(s.sr) \o BE32(s.blocks) \o BE16(0) \o BE16(0)
                 \o CompBytes(s.comp) \o ChunksBytes(s.chunks) \o Fill(255, s.audio)
    IN  IF s.cut < 0 THEN whole ELSE Prefix(whole, s.cut)

RECURSIVE SeqsUpTo(_, _)
SeqsUpTo(S, n) ==
    IF n = 0 THEN {<<>>}
    ELSE LET shorter == SeqsUpTo(S, n - 1)
         IN  shorter \cup {Append(q, x) : q \in {t \in shorter : Len(t) = n - 1}, x \in S}

Good(chunks) == Stream(<<72, 67, 65, 0>>, {}, <<102, 109, 116, 0>>, 2, 44100, 3,
                       "comp", chunks, -1, 5, -1)

\* every list of trailing chunks up to MaxChunks
ChunkStreams == {Good(cs) : cs \in SeqsUpTo(ChunkKinds, MaxChunks)}

\* the format field at and around its limits, whole and cut inside the fmt chunk
FmtStreams ==
    {[Good(<<>>) EXCEPT !.ch = ch, !.sr = sr, !.cut = cut] :
        ch \in {0, 1, 16, 17, 255}, sr \in {0, 1, 44100, 8388607, 8388608, 16777215},
        cut \in {-1, 20}}

\* the magic and the fmt tag with every combination of high bits, right and wrong
MagicStreams ==
    {[Good(<<>>) EXCEPT !.magic = m, !.hi = hi] :
        m \in {<<72, 67, 65, 0>>, <<72, 67, 66, 0>>, <<72, 67, 65, 1>>}, hi \in SUBSET (1..4)}
    \cup {[Good(<<>>) EXCEPT !.fmt = f] :
        f \in {<<230, 109, 244, 128>>, <<102, 109, 116, 32>>}}

\* both comp variants and neither, declared data offsets short and long
LayoutStreams ==
    {[Good(cs) EXCEPT !.comp = c, !.dataoff = off, !.blocks = b] :
        cs \in {<<"ciph56">>, <<"loop", "ciph0">>}, c \in {"comp", "dec", "none"},
        off \in {-1, 0, 40, 43, 44, 200}, b \in {0, 3}}

\* a header with every chunk, cut at every length
CutStreams ==
    LET full == Good(<<"vbr", "loop", "ciph56", "rva", "comm">>)
    IN  {[full EXCEPT !.cut = n] : n \in 1..(HeaderLen(full) + 1)}

HeaderStreams == ChunkStreams \cup FmtStreams \cup MagicStreams \cup LayoutStreams \cup CutStreams

\* the streams of the archives with several entries: two valid streams, one
\* cut in the middle of its header, one with a wrong magic
EntryStreams ==
    {Good(<<"ciph56">>),
     [Good(<<"loop">>) EXCEPT !.ch = 1, !.sr = 22050, !.blocks = 7, !.comp = "dec", !.audio = 3],
     [Good(<<"ciph56">>) EXCEPT !.cut = 27],
     [Good(<<>>) EXCEPT !.magic = <<82, 73, 70, 70>>]}

\* the smallest multiple of a that is >= x (x itself when a = 0)
PadUp(x, a) == IF a = 0 THEN x ELSE CHOOSE y \in x..(x + a - 1) : y % a = 0

IdOf(k) == 300 + 7 * k

\* where the entries of an archive go: entry k starts at the first aligned
\* position after entry k-1 (after the index for k = 1)
RECURSIVE Starts(_, _, _)
Starts(lens, from, a) ==
    IF lens = <<>> THEN <<>>
    ELSE <<PadUp(from, a)>> \o Starts(Tail(lens), PadUp(from, a) + Head(lens), a)

IndexLen(n, width) == 16 + 2 * n + width * (n + 1)

SizeBytes(x, width) == IF width = 2 THEN LE16(x) ELSE LE32(x)

RECURSIVE Concat(_)
Concat(ss) == IF ss = <<>> THEN <<>> ELSE Head(ss) \o Concat(Tail(ss))

\* the index of an archive: the fixed header, the ids, the offset table
IndexBytes(width, a, n, offsets) ==
    <<65, 70, 83, 50>> \o <<1, width, 2, 0>> \o LE32(n) \o LE16(a) \o LE16(0)
    \o Concat([k \in 1..n |-> LE16(IdOf(k - 1))])
    \o Concat([k \in 1..Len(offsets) |-> SizeBytes(offsets[k], width)])

\* an archive holding the given streams
ArchiveBytes(width, a, streams) ==
    LET n == Len(streams)
        bytes == [k \in 1..n |-> StreamBytes(streams[k])]
        first == IndexLen(n, width)
        st == Starts([k \in 1..n |-> Len(bytes[k])], first, a)
        offsets == <<first>> \o [k \in 1..n |-> st[k] + Len(bytes[k])]
        body == Concat([k \in 1..n |->
                          Fill(0, st[k] - (IF k = 1 THEN first ELSE offsets[k])) \o bytes[k]])
    IN  IndexBytes(width, a, n, offsets) \o body

\* an index with an arbitrary offset table over a body of zero bytes
RawBytes(width, a, offsets, size) ==
    LET index == IndexBytes(width, a, Len(offsets) - 1, offsets)
    IN  index \o Fill(0, size - Len(index))

Source(kind, width, a, streams, offsets, cut) ==
    [kind |-> kind, width |-> width, alignment |-> a, streams |-> streams,
     offsets |-> offsets, cut |-> cut]

SourceBytes(s) ==
    LET built == IF s.kind = "raw" THEN RawBytes(s.width, s.alignment, s.offsets, 128)
                 ELSE ArchiveBytes(s.width, s.alignment, s.streams)
        whole == IF s.kind = "magic" THEN [built EXCEPT ![4] = 51] ELSE built
    IN  IF s.cut < 0 THEN whole ELSE Prefix(whole, s.cut)

\* archives of one entry, over every stream
SingleSources ==
    {Source("single", 2, 32, <<h>>, <<>>, -1) : h \in HeaderStreams}
    \cup {Source("single", w, a, <<h>>, <<>>, -1) :
            w \in {2, 4}, a \in {0, 4}, h \in {Good(<<"ciph0">>), Good(<<"unk", "loop">>)}}

\* archives of 0..MaxEntries entries
MultiSources ==
    {Source("multi", w, a, ss, <<>>, -1) :
        w \in {2, 4}, a \in {0, 32}, ss \in SeqsUpTo(EntryStreams, MaxEntries)}

\* archives of ten entries, one of them cut in the middle of its header
TenSources ==
    {Source("ten", 2, 32,
            [k \in 1..10 |-> IF k = bad THEN [Good(<<"ciph56">>) EXCEPT !.cut = 27]
                             ELSE [Good(<<"ciph0">>) EXCEPT !.blocks = k]],
            <<>>, -1) : bad \in {5, 6}}

\* indexes declaring arbitrary offsets: ascending or not, with empty entries
\* after the first
RawOffsets == {0, 20, 50, 64, 120}
RawSources ==
    {Source("raw", w, a, <<>>, offs, -1) :
        w \in {2, 4}, a \in {0, 32},
        offs \in {o \in SeqsUpTo(RawOffsets, MaxRawEntries + 1) : Len(o) >= 2 /\ o[1] # o[2]}}

\* files that are no readable index: cut anywhere in the index, a wrong
\* magic, an unsupported width (with the id table whole, and cut)
BadSources ==
    UNION {{Source("cut", w, 32, <<Good(<<>>), Good(<<>>)>>, <<>>, n) : n \in 0..IndexLen(2, w)} :
             w \in {2, 4}}
    \cup {Source("width", w, 32, <<Good(<<>>)>>, <<>>, n) : w \in {0, 1, 3, 8}, n \in {-1, 16, 17}}
    \cup {Source("magic", 2, 32, <<Good(<<>>)>>, <<>>, -1)}

Sources == SingleSources \cup MultiSources \cup TenSources \cup RawSources \cup BadSources

(***************************************************************************)
(* The specification: parse_awb on one of the input files.                 *)
(***************************************************************************)
(***************************************************************************)
(* Table files, written from a description the way an authoring tool lays  *)
(* a table out: the 32-byte header, the column schema (with the inline     *)
(* values), the rows, the string pool, the blob pool.  A description is    *)
(* [name, cols, rows, farname]; a column is [m, ty, key, fill, sub] with m *)
(* the storage method, ty the type code, fill the kind of content of its   *)
(* cells and sub the description of the table its blobs hold (<<>> when    *)
(* none).                                                                  *)
(***************************************************************************)
FarOffset == 100000

Column(m, ty, key, fill) == [m |-> m, ty |-> ty, key |-> key, fill |-> fill, sub |-> <<>>]
TableColumn(m, key, sub) == [m |-> m, ty |-> 27, key |-> key, fill |-> "tab", sub |-> <<sub>>]
Sheet(name, cols, rows) == [name |-> name, cols |-> cols, rows |-> rows, farname |-> FALSE]

WidthOf(ty) ==
    CASE ty \in {16, 17} -> 1
      [] ty \in {18, 19} -> 2
      [] ty \in {20, 21, 24, 26} -> 4
      [] ty \in {22, 23, 25, 27} -> 8
      [] OTHER -> 0

IsNumber(ty) == ty \in 16..25
\* the cells of the table in the order they are written: the inline cell of
\* each column (row 0), then row by row the cells of the per-row columns
CellsOf(t) ==
    LET n == Len(t.cols)
        inline == SelectSeq([c \in 1..n |-> <<0, c>>], LAMBDA rc : t.cols[rc[2]].m = 1)
        perrow == SelectSeq([c \in 1..n |-> c], LAMBDA c : t.cols[c].m >= 2)
    IN  inline \o Concat([r \in 1..t.rows |-> [k \in 1..Len(perrow) |-> <<r, perrow[k]>>]])

\* the content of the number in row r of column c
NumberCell(col, r, c) ==
    LET w == WidthOf(col.ty)
    IN  IF col.fill = "zero" THEN Fill(0, w)
        ELSE IF col.fill = "hi"
        THEN (IF w = 1 THEN <<200 + r>> ELSE <<255>> \o Fill(0, w - 2) \o <<16 * r + c>>)
        ELSE Fill(0, w - 1) \o <<16 * r + c + 1>>

\* the content of the string in row r of column c
StringCell(col, r, c) == IF col.fill = "empty" THEN <<>> ELSE <<118, 48 + r, 48 + c>>

\* v, worked out once, then laid out by F
Once(v, F(_)) == CHOOSE r \in {F(x) : x \in {v}} : TRUE

RECURSIVE TableBytes(_)

\* the bytes of the blob in row r of column c, as the blob pool holds them
BlobCell(col, r, c) ==
    CASE col.fill = "empty" -> <<>>
      [] col.fill = "short" -> <<64, 85, 84, 70, r, c>>
      [] col.fill = "trunc" -> <<64, 85, 84, 70, 0, 0, 0, 4, 0, 1, r, c>>
      [] col.fill = "tab" -> TableBytes(col.sub[1])
      [] OTHER -> <<65, 70, 83, 50, r, c>>

\* the offset of x in the string pool, each string followed by its NUL
RECURSIVE OffsetIn(_, _)
OffsetIn(pool, x) ==
    IF pool = <<>> \/ Head(pool) = x THEN 0
    ELSE Len(Head(pool)) + 1 + OffsetIn(Tail(pool), x)

\* the cells that hold a blob, in the order of the blob pool
BlobCells(t) == SelectSeq(CellsOf(t), LAMBDA rc : t.cols[rc[2]].ty = 27)

StringPool(t) ==
    LET cells == SelectSeq(CellsOf(t), LAMBDA rc : t.cols[rc[2]].ty = 26)
    IN  <<t.name>> \o [c \in 1..Len(t.cols) |-> t.cols[c].key]
        \o [k \in 1..Len(cells) |-> StringCell(t.cols[cells[k][2]], cells[k][1], cells[k][2])]

RECURSIVE BlobPool(_, _)
BlobPool(t, cells) ==
    IF cells = <<>> THEN <<>>
    ELSE <<BlobCell(t.cols[Head(cells)[2]], Head(cells)[1], Head(cells)[2])>>
         \o BlobPool(t, Tail(cells))

\* the offset of the k-th blob of the pool
RECURSIVE BlobOffset(_, _)
BlobOffset(bp, k) == IF k <= 1 THEN 0 ELSE Len(bp[k - 1]) + BlobOffset(bp, k - 1)

\* what is written where the value of the cell goes; sp and bp are the pools
CellBytes(t, sp, bp, r, c) ==
    LET col == t.cols[c]
        cells == BlobCells(t)
        k == CHOOSE j \in 1..Len(cells) : cells[j] = <<r, c>>
    IN  IF IsNumber(col.ty) THEN NumberCell(col, r, c)
        ELSE IF col.ty = 26
        THEN BE32(IF col.fill = "far" THEN FarOffset
                  ELSE OffsetIn(sp, StringCell(col, r, c)))
        ELSE IF col.ty = 27
        THEN BE32(IF col.fill = "far" THEN FarOffset ELSE BlobOffset(bp, k))
             \o BE32(IF col.fill = "over" THEN Len(bp[k]) + 100 ELSE Len(bp[k]))
        ELSE <<>>

RECURSIVE CellsBytes(_, _, _, _)
CellsBytes(t, sp, bp, cells) ==
    IF cells = <<>> THEN <<>>
    ELSE CellBytes(t, sp, bp, Head(cells)[1], Head(cells)[2])
         \o CellsBytes(t, sp, bp, Tail(cells))

RECURSIVE SchemaBytes(_, _, _, _)
SchemaBytes(t, sp, bp, c) ==
    IF c > Len(t.cols) THEN <<>>
    ELSE <<32 * t.cols[c].m + t.cols[c].ty>> \o BE32(OffsetIn(sp, t.cols[c].key))
         \o (IF t.cols[c].m = 1 THEN CellBytes(t, sp, bp, 0, c) ELSE <<>>)
         \o SchemaBytes(t, sp, bp, c + 1)

RECURSIVE StringBytes(_)
StringBytes(sp) == IF sp = <<>> THEN <<>> ELSE Head(sp) \o <<0>> \o StringBytes(Tail(sp))

\* header and regions, the regions given
Layout(t, schema, rows, strings, blobs) ==
    <<64, 85, 84, 70>> \o BE32(24 + Len(schema) + Len(rows) + Len(strings) + Len(blobs))
    \o <<0, 0>> \o BE16(24 + Len(schema))
    \o BE32(24 + Len(schema) + Len(rows))
    \o BE32(24 + Len(schema) + Len(rows) + Len(strings))
    \o BE32(IF t.farname THEN FarOffset ELSE 0)
    \o BE16(Len(t.cols)) \o BE16(IF t.rows = 0 THEN 0 ELSE Len(rows) \div t.rows)
    \o BE32(t.rows)
    \o schema \o rows \o strings \o blobs

TableBytes(t) ==
    Once(<<StringPool(t) \o <<>>, BlobPool(t, BlobCells(t))>>, LAMBDA pool :
        Once(<<SchemaBytes(t, pool[1], pool[2], 1),
               CellsBytes(t, pool[1], pool[2], SelectSeq(CellsOf(t), LAMBDA rc : rc[1] > 0)),
               StringBytes(pool[1]), Concat(pool[2])>>,
             LAMBDA part : Layout(t, part[1], part[2], part[3], part[4])))

(***************************************************************************)
(* The table files the decoder is run on.                                  *)
(***************************************************************************)
NameT == <<116>>                                  \* 't'
KeyOf(c) == <<107, 48 + c>>                       \* 'k1', 'k2', ...

\* schemas over the common types, every storage method in every position
GridTypes == {17, 21, 26, 27}
GridColumns(c) == {Column(m, ty, KeyOf(c), "lo") : m \in 0..2, ty \in GridTypes}

RECURSIVE Schemas(_)
Schemas(n) ==
    IF n = 0 THEN {<<>>}
    ELSE {Append(s, col) : s \in Schemas(n - 1), col \in GridColumns(n)}

GridSheets ==
    {Sheet(NameT, s, r) : s \in UNION {Schemas(n) : n \in 1..MaxCols}, r \in 0..MaxRows}

\* one column of every type code, with ordinary and extreme contents
FillsOf(ty) ==
    IF ty \in {17, 19, 21} THEN {"lo", "zero"}
    ELSE IF ty \in 16..25 THEN {"lo", "hi", "zero"}
    ELSE IF ty = 26 THEN {"lo", "empty", "far"}
    ELSE IF ty = 27 THEN {"raw", "empty", "short", "trunc", "far", "over"}
    ELSE {"lo"}

TypeSheets ==
    {Sheet(NameT, <<Column(m, ty, KeyOf(1), f)>>, r) :
        m \in {0, 1, 2, 3, 7}, ty \in {0, 28} \cup 16..27, f \in {"lo", "hi", "zero",
        "empty", "far", "raw", "short", "trunc", "over"}, r \in 0..MaxRows}

OneTypeSheets == {t \in TypeSheets : t.cols[1].fill \in FillsOf(t.cols[1].ty)}

\* two columns under one key, and a table whose name offset is far away
OddSheets ==
    {Sheet(NameT, <<Column(m1, 17, KeyOf(1), "lo"), Column(m2, 26, KeyOf(1), "lo")>>, r) :
        m1 \in 0..2, m2 \in 0..2, r \in 1..MaxRows}
    \cup {[Sheet(NameT, <<Column(m, 26, KeyOf(1), "lo")>>, 1) EXCEPT !.farname = TRUE] :
             m \in 0..2}

\* how a column of a catalog is stored: not in the schema at all, in the
\* schema with storage method 0, inline, or per row
Storages == {"missing", "absent", "inline", "row"}
MethodOf(st) == IF st = "absent" THEN 0 ELSE IF st = "inline" THEN 1 ELSE 2

Present(cols, sts) ==
    LET kept == SelectSeq([k \in 1..Len(cols) |-> k], LAMBDA k : sts[k] # "missing")
    IN  [j \in 1..Len(kept) |-> [cols[kept[j]] EXCEPT !.m = MethodOf(sts[kept[j]])]]

\* the assignments of a storage to each of n columns in which at most `odd`
\* columns are not stored per row
StoragesOf(n, odd) ==
    {sts \in [1..n -> Storages] : Cardinality({k \in 1..n : sts[k] # "row"}) <= odd}

CueSheet(st, fill, rows) ==
    Sheet(KeyCueNameTable,
          Present(<<Column(2, 26, KeyCueName, fill), Column(2, 19, <<105>>, "lo")>>,
                  <<st, "row">>),
          rows)

WaveColumns ==
    <<Column(2, 19, KeyId, "lo"), Column(2, 17, KeyStreaming, "lo"),
      Column(2, 17, KeyEncodeType, "lo"), Column(2, 19, KeyMemoryAwbId, "lo"),
      Column(2, 19, KeyStreamAwbId, "lo"), Column(2, 19, KeyStreamAwbPortNo, "lo")>>

WaveSheet(sts, rows) == Sheet(KeyWaveformTable, Present(WaveColumns, sts), rows)

HashSheet(st, rows) ==
    Sheet(KeyStreamAwbHash, Present(<<Column(2, 26, KeyName, "lo")>>, <<st>>), rows)

AllRow(n) == [k \in 1..n |-> "row"]

\* the root table of a catalog: name, version, the three nested tables and
\* the embedded archive
RootColumns(cue, wave, hash, awbfile) ==
    <<Column(2, 26, KeyName, "lo"), Column(2, 21, KeyVersion, "lo"),
      TableColumn(2, KeyCueNameTable, cue), TableColumn(2, KeyWaveformTable, wave),
      awbfile, TableColumn(2, KeyStreamAwbHash, hash)>>

AwbFileRaw == Column(2, 27, KeyAwbFile, "raw")

RootSheet(sts, cue, wave, hash, awbfile, rows) ==
    Sheet(<<72, 101, 97, 100, 101, 114>>,
          Present(RootColumns(cue, wave, hash, awbfile), sts), rows)

CueDefault == CueSheet("row", "lo", 2)
WaveDefault == WaveSheet(AllRow(6), 2)
HashDefault == HashSheet("row", 1)

\* catalogs that differ in how the root columns are stored
RootSheets ==
    {RootSheet(sts, CueDefault, WaveDefault, HashDefault, AwbFileRaw, r) :
        sts \in StoragesOf(6, 2), r \in {1}}
    \cup {RootSheet(AllRow(6), CueDefault, WaveDefault, HashDefault, AwbFileRaw, r) :
             r \in {0, 2}}

\* catalogs that differ in their nested tables
NestedSheets ==
    {RootSheet(AllRow(6), CueDefault, WaveSheet(sts, r), HashDefault, AwbFileRaw, 1) :
        sts \in StoragesOf(6, 1), r \in 0..MaxRows}
    \cup {RootSheet(AllRow(6), CueSheet(st, f, r), WaveDefault, HashSheet(st, r),
                    AwbFileRaw, 1) :
             st \in Storages, f \in {"lo", "empty"}, r \in 0..MaxRows}

\* catalogs that differ in the embedded archive column
AwbFileColumns ==
    {Column(m, 27, KeyAwbFile, f) :
        m \in 0..2, f \in {"raw", "empty", "short", "trunc", "far", "over"}}
    \cup {TableColumn(m, KeyAwbFile, CueDefault) : m \in 0..2}
    \cup {Column(m, ty, KeyAwbFile, "lo") : m \in 0..2, ty \in {21, 26}}

AwbFileSheets ==
    {RootSheet(AllRow(6), CueDefault, WaveDefault, HashDefault, col, 1) :
        col \in AwbFileColumns}
    \cup {RootSheet([AllRow(6) EXCEPT ![6] = "missing"], CueDefault, WaveDefault,
                    HashDefault, col, 1) : col \in AwbFileColumns}

CatalogSheets == RootSheets \cup NestedSheets \cup AwbFileSheets

\* the tables that are cut short at every length
CutSheets ==
    {RootSheet(AllRow(6), CueSheet("row", "lo", 1), WaveSheet(AllRow(6), 1), HashDefault,
               AwbFileRaw, 1),
     Sheet(NameT, <<Column(1, 26, KeyOf(1), "lo"), Column(2, 19, KeyOf(2), "lo"),
                    Column(2, 26, KeyOf(3), "lo"), Column(2, 27, KeyOf(4), "raw")>>, 2)}

OtherMagics == {<<64, 85, 84, 71>>, <<65, 70, 83, 50>>, <<192, 85, 84, 70>>, <<0, 0, 0, 0>>}

TableSource(kind, sheet, cut, magic) ==
    [kind |-> kind, sheet |-> sheet, cut |-> cut, magic |-> magic]

\* tables whose blob region is declared to start at the sub-header (data
\* offset 0), with one blob declared longer than the file
OverlapSheets ==
    {Sheet(NameT, <<Column(m, 27, KeyOf(1), "over")>>, r) : m \in {1, 2}, r \in 1..MaxRows}

\* tables that declare more rows than the memory holds, at no cost in file
\* bytes: no column, or one inline column
FloodSheets ==
    {Sheet(NameT, cols, MemRows + 1) : cols \in {<<>>, <<Column(1, 17, KeyOf(1), "lo")>>}}

\* a 47-byte table written so that its own bytes from the sub-header on read
\* as a table again: the first two sub-header fields spell the magic, the
\* data offset is 0 and the one inline blob is at offset 0 of the region
SelfNested ==
    <<64, 85, 84, 70>> \o BE32(39) \o <<64, 85, 84, 70>> \o BE32(37) \o BE32(0) \o BE32(0)
    \o BE16(1) \o BE16(0) \o BE32(1)
    \o <<59>> \o BE32(0) \o BE32(0) \o BE32(65536)
    \o <<107, 0>>

TableSources ==
    {TableSource("grid", t, -1, <<>>) : t \in GridSheets \cup OneTypeSheets \cup OddSheets}
    \cup {TableSource("catalog", t, -1, <<>>) : t \in CatalogSheets}
    \cup UNION {{TableSource("cut", t, n, <<>>) : n \in 0..(Len(TableBytes(t)) - 1)} :
                   t \in CutSheets}
    \cup UNION {{TableSource("magic", t, n, m) : n \in {-1, 4, 6, 8, 20}, m \in OtherMagics} :
                   t \in CutSheets}
    \cup {TableSource("overlap", t, -1, <<>>) : t \in OverlapSheets}
    \cup {TableSource("flood", t, -1, <<>>) : t \in FloodSheets}
    \cup {TableSource("nested", Sheet(NameT, <<>>, 0), n, <<>>) : n \in {-1, 46}}

\* the bytes of the file
TableFile(s) ==
    LET whole == IF s.kind = "nested" THEN SelfNested ELSE TableBytes(s.sheet)
        marked == IF s.magic # <<>> THEN s.magic \o SubSeq(whole, 5, Len(whole))
                  ELSE IF s.kind = "overlap"
                  THEN [k \in 1..Len(whole) |-> IF k \in 17..20 THEN 0 ELSE whole[k]]
                  ELSE whole
    IN  IF s.cut < 0 THEN marked ELSE Prefix(marked, s.cut)

(***************************************************************************)
(* scan_directory: the walk over a directory tree.  A file name and a      *)
(* directory path are strings (code points); a file of the walk is         *)
(* [root, file, holds] with holds naming what the file contains.  The walk *)
(* calls parse_acb and parse_awb, whose steps are the actions above.       *)
(***************************************************************************)
ExtAcb == <<46, 97, 99, 98>>
ExtAwb == <<46, 97, 119, 98>>

\* str.lower
Lower(s) == [k \in 1..Len(s) |-> IF s[k] \in 65..90 THEN s[k] + 32 ELSE s[k]]

\* str.endswith
EndsWith(s, suffix) ==
    /\ Len(s) >= Len(suffix)
    /\ SubSeq(s, Len(s) - Len(suffix) + 1, Len(s)) = suffix

\* os.path.splitext(file)[0] of a name without separators: the extension
\* starts at the last dot, unless only dots come before it
SplitExt(file) ==
    LET dots == {k \in 1..Len(file) : file[k] = 46}
    IN  IF dots = {} THEN file
        ELSE LET dotIndex == CHOOSE k \in dots : \A j \in dots : j <= k
             IN  IF \A j \in 1..(dotIndex - 1) : file[j] = 46
                 THEN file
                 ELSE SubSeq(file, 1, dotIndex - 1)

\* os.path.join of a directory and a name without separators
Join(root, name) ==
    IF root = <<>> \/ root[Len(root)] = 47 THEN root \o name ELSE root \o <<47>> \o name

ArchiveMetadata(base_name) ==
    [base_name |-> base_name, acb |-> <<>>, awb |-> <<>>,
     total_tracks |-> 0, total_duration_sec |-> <<>>]

\* the bytes of a file of the walk
Contents(f) ==
    IF f.holds.kind = "none" THEN <<>>
    ELSE IF f.holds.kind = "table" THEN TableFile(f.holds.of)
    ELSE SourceBytes(f.holds.of)

\* one file of the walk: the pair is looked up or made, then the parser of
\* the extension is called; a file of another extension is passed over
ScanFile ==
    /\ spc = "walk"
    /\ fidx < Len(listing)
    /\ LET f == listing[fidx + 1]
           file_lower == Lower(f.file)
           base_name == SplitExt(f.file)
           key == Join(f.root, base_name)
           known == IF DictHas(archives, key) THEN archives
                    ELSE DictSet(archives, key, ArchiveMetadata(base_name))
       IN  IF EndsWith(file_lower, ExtAcb)
           THEN /\ archives' = known
                /\ spc' = "parse_acb"
                /\ udata' = Contents(f)
                /\ usrc' = f.holds.of
                /\ upc' = "acb_read"
                /\ uhdr' = <<>>
                /\ upos' = 0
                /\ value_pos' = 0
                /\ page_idx' = 0
                /\ elem_idx' = 0
                /\ page' = <<>>
                /\ pages' = <<>>
                /\ utf' = UtfRunning
                /\ acb' = ACBMetadata
                /\ UNCHANGED <<awbvars, fidx>>
           ELSE IF EndsWith(file_lower, ExtAwb)
           THEN /\ archives' = known
                /\ spc' = "parse_awb"
                /\ data' = Contents(f)
                /\ src' = f.holds.of
                /\ pc' = "open"
                /\ awb' = AWBMetadata
                /\ pos' = 0
                /\ file_ids' = <<>>
                /\ start' = 0
                /\ end' = 0
                /\ i' = 0
                /\ ranges' = <<>>
                /\ hdata' = <<>>
                /\ hca' = NoHca
                /\ hpos' = 0
                /\ UNCHANGED <<uvars, fidx>>
           ELSE /\ fidx' = fidx + 1
                /\ UNCHANGED <<awbvars, uvars, archives, spc>>
    /\ UNCHANGED <<listing, result, evars>>

\* the key of the file being handled
CurKey == Join(listing[fidx + 1].root, SplitExt(listing[fidx + 1].file))

\* archives[key]
CurArchive == DictGet(archives, CurKey, ArchiveMetadata(<<>>))

\* archives[key].acb = parse_acb(full_path)
ScanAcb ==
    /\ spc = "parse_acb"
    /\ upc = "acb_done"
    /\ archives' = DictSet(archives, CurKey, [CurArchive EXCEPT !.acb = <<acb>>])
    /\ fidx' = fidx + 1
    /\ spc' = "walk"
    /\ UNCHANGED <<awbvars, uvars, listing, result, evars>>

\* archives[key].awb = parse_awb(full_path)
ScanAwb ==
    /\ spc = "parse_awb"
    /\ pc = "done"
    /\ archives' = DictSet(archives, CurKey, [CurArchive EXCEPT !.awb = <<awb>>])
    /\ fidx' = fidx + 1
    /\ spc' = "walk"
    /\ UNCHANGED <<awbvars, uvars, listing, result, evars>>

\* Totals with the invalid entries in the sum, and the sum ended at the
\* first of them
TotalsUntilInvalid(archive) ==
    IF archive.awb # <<>> /\ archive.awb[1].tracks # <<>>
    THEN LET tracks == archive.awb[1].tracks
             stop == IF \E k \in 1..Len(tracks) : ~tracks[k].is_valid
                     THEN CHOOSE k \in 1..Len(tracks) :
                              /\ ~tracks[k].is_valid
                              /\ \A j \in 1..(k - 1) : tracks[j].is_valid
                     ELSE Len(tracks)
         IN  [archive EXCEPT !.total_tracks = Len(tracks),
                             !.total_duration_sec =
                                 [k \in 1..stop |-> tracks[k].duration_sec]]
    ELSE archive

\* the totals of one pair; the sum is kept as the list of its addends
Totals(archive) ==
    IF archive.awb # <<>> /\ archive.awb[1].tracks # <<>>
    THEN LET tracks == archive.awb[1].tracks
             valid == SelectSeq(tracks, LAMBDA t : t.is_valid)
         IN  [archive EXCEPT !.total_tracks = Len(tracks),
                             !.total_duration_sec =
                                 [k \in 1..Len(valid) |-> valid[k].duration_sec]]
    ELSE archive

\* the walk is over: totals of every pair, and the result list
ScanTotals ==
    /\ spc = "walk"
    /\ fidx = Len(listing)
    /\ archives' = [k \in 1..Len(archives) |->
                       [archives[k] EXCEPT !.value = Totals(archives[k].value)]]
    /\ result' = [k \in 1..Len(archives) |-> Totals(archives[k].value)]
    /\ spc' = "returned"
    /\ UNCHANGED <<awbvars, uvars, listing, fidx, evars>>

(***************************************************************************)
(* The directory trees the walk is run on: two directories, file names     *)
(* that differ in letter case and in extension.                            *)
(***************************************************************************)
MaxFiles == 2

DirD == <<100>>
DirE == <<100, 47, 101>>

\* Voice.acb, voice.acb, voice.awb, Voice.AWB, .awb, notes.txt
FileNames ==
    {<<86, 111, 105, 99, 101, 46, 97, 99, 98>>, <<118, 111, 105, 99, 101, 46, 97, 99, 98>>,
     <<118, 111, 105, 99, 101, 46, 97, 119, 98>>, <<86, 111, 105, 99, 101, 46, 65, 87, 66>>,
     <<46, 97, 119, 98>>, <<110, 111, 116, 101, 115, 46, 116, 120, 116>>}

\* what a file of that name may hold
Holdings(file) ==
    IF EndsWith(Lower(file), ExtAcb)
    THEN {[kind |-> "table",
           of |-> TableSource("catalog",
                              RootSheet(AllRow(6), CueSheet("row", "lo", 1),
                                        WaveSheet(AllRow(6), 1), HashDefault, AwbFileRaw, 1),
                              -1, <<>>)],
          [kind |-> "table",
           of |-> TableSource("flood", Sheet(NameT, <<>>, MemRows + 1), -1, <<>>)]}
    ELSE IF EndsWith(Lower(file), ExtAwb)
    THEN {[kind |-> "archive",
           of |-> Source("multi", 4, 32,
                         <<Good(<<"ciph56">>), [Good(<<"ciph56">>) EXCEPT !.cut = 27],
                           [Good(<<"loop">>) EXCEPT !.blocks = 7]>>, <<>>, -1)],
          [kind |-> "archive", of |-> Source("multi", 2, 32, <<>>, <<>>, -1)],
          [kind |-> "archive", of |-> Source("magic", 2, 32, <<Good(<<>>)>>, <<>>, -1)]}
    ELSE {[kind |-> "none", of |-> <<>>]}

WalkFiles ==
    UNION {{[root |-> DirD, file |-> n, holds |-> h] : h \in Holdings(n)} : n \in FileNames}
    \cup {[root |-> DirE, file |-> <<118, 111, 105, 99, 101, 46, 97, 119, 98>>, holds |-> h] :
             h \in Holdings(<<118, 111, 105, 99, 101, 46, 97, 119, 98>>)}

\* os.walk yields a directory's files together, a directory before those
\* under it, and no file twice
Listings ==
    {l \in SeqsUpTo(WalkFiles, MaxFiles) :
        /\ \A a, b \in 1..Len(l) : a < b => l[a].root = DirD \/ l[b].root = DirE
        /\ \A a, b \in 1..Len(l) :
               a # b => l[a].root # l[b].root \/ l[a].file # l[b].file}

(***************************************************************************)
(* The three programs: parse_awb on an archive file (Spec), parse_acb on a *)
(* table file (SpecUtf) and scan_directory on a directory tree (SpecScan), *)
(* which calls the other two.                                              *)
(***************************************************************************)
NoSource == [kind |-> "none"]

\* parse_acb has not been called
AcbIdle ==
    /\ usrc = NoSource
    /\ udata = <<>>
    /\ upc = "idle"
    /\ uhdr = <<>>
    /\ upos = 0
    /\ value_pos = 0
    /\ page_idx = 0
    /\ elem_idx = 0
    /\ page = <<>>
    /\ pages = <<>>
    /\ utf = UtfRunning
    /\ acb = ACBMetadata

\* parse_awb has not been called
AwbIdle ==
    /\ src = NoSource
    /\ data = <<>>
    /\ pc = "idle"
    /\ awb = AWBMetadata
    /\ pos = 0
    /\ file_ids = <<>>
    /\ start = 0
    /\ end = 0
    /\ i = 0
    /\ ranges = <<>>
    /\ hdata = <<>>
    /\ hca = NoHca
    /\ hpos = 0

\* scan_directory has not been called
ScanIdle ==
    /\ listing = <<>>
    /\ spc = "idle"
    /\ fidx = 0
    /\ archives = <<>>
    /\ result = <<>>

\* extract_awb has not been called
ExtractIdle ==
    /\ vgm = <<>>
    /\ epc = "idle"
    /\ subsong_infos = <<>>
    /\ name_counts = <<>>
    /\ name_variant = <<>>
    /\ eidx = 0
    /\ success = 0
    /\ skipped = 0
    /\ written = <<>>
    /\ ereturn = <<>>

Init ==
    /\ AcbIdle
    /\ ScanIdle
    /\ ExtractIdle
    /\ src \in Sources
    /\ data = SourceBytes(src)
    /\ pc = "open"
    /\ awb = AWBMetadata
    /\ pos = 0
    /\ file_ids = <<>>
    /\ start = 0
    /\ end = 0
    /\ i = 0
    /\ ranges = <<>>
    /\ hdata = <<>>
    /\ hca = NoHca
    /\ hpos = 0

Next ==
    \/ AwbOpen
    \/ AwbReadIds
    \/ AwbFirstOffset
    \/ AwbEntry
    \/ HcaMagic
    \/ HcaFmt
    \/ HcaComp
    \/ HcaScan
    \/ HcaFinish
    \/ AwbAppend
    \/ AwbFinish

Spec == Init /\ [][Next]_vars

InitUtf ==
    /\ AwbIdle
    /\ ScanIdle
    /\ ExtractIdle
    /\ usrc \in TableSources
    /\ udata = TableFile(usrc)
    /\ upc = "acb_read"
    /\ uhdr = <<>>
    /\ upos = 0
    /\ value_pos = 0
    /\ page_idx = 0
    /\ elem_idx = 0
    /\ page = <<>>
    /\ pages = <<>>
    /\ utf = UtfRunning
    /\ acb = ACBMetadata

NextUtf ==
    \/ AcbRead
    \/ UtfPage
    \/ UtfElem
    \/ UtfPageEnd
    \/ AcbProject

SpecUtf == InitUtf /\ [][NextUtf]_vars

InitScan ==
    /\ AwbIdle
    /\ AcbIdle
    /\ ExtractIdle
    /\ listing \in Listings
    /\ spc = "walk"
    /\ fidx = 0
    /\ archives = <<>>
    /\ result = <<>>

NextScan ==
    \/ ScanFile
    \/ ScanAcb
    \/ ScanAwb
    \/ ScanTotals
    \/ Next
    \/ NextUtf

SpecScan == InitScan /\ [][NextScan]_vars

(***************************************************************************)
(* Properties.                                                             *)
(***************************************************************************)
Done == pc = "done"

\* the k-th entry of the offset table (k = 0 is the first start), as the file holds it
TableOffset(k) ==
    LET n == U32LE(data, 8)
        w == data[6]
        p == 16 + 2 * n + w * k
    IN  IF w = 2 THEN data[p + 1] + 256 * data[p + 2]
        ELSE data[p + 1] + 256 * data[p + 2] + 65536 * data[p + 3] + 16777216 * data[p + 4]

\* the index of the file is whole: magic, a supported width, ids and offsets
IndexReadable ==
    /\ Len(data) >= 16
    /\ SubSeq(data, 1, 4) = <<65, 70, 83, 50>>
    /\ data[6] \in {2, 4}
    /\ Len(data) >= IndexLen(U32LE(data, 8), data[6])

\* Scenario B of the spec: two entries, width 2, alignment 32, offsets 0, 50, 120
ScenarioB ==
    /\ Done
    /\ IndexReadable
    /\ U32LE(data, 8) = 2 /\ data[6] = 2 /\ U16LE(data, 12) = 32
    /\ TableOffset(0) = 0 /\ TableOffset(1) = 50 /\ TableOffset(2) = 120

\* C1 as the spec states it: on Scenario B parse_awb yields exactly two
\* entries with the byte ranges [32,50) and [64,120).
C1_ScenarioB_AsStated ==
    ScenarioB => Len(awb.tracks) = 2 /\ ranges = <<<<32, 50>>, <<64, 120>>>>

\* C1 amended: on Scenario B parse_awb yields exactly two entries with the
\* byte ranges [0,50) and [64,120): the first start 0 is already a multiple
\* of 32 and stays 0, the second start 50 is rounded to 64.
C1_ScenarioB ==
    ScenarioB => Len(awb.tracks) = 2 /\ ranges = <<<<0, 50>>, <<64, 120>>>>

C1_Witness == ScenarioB /\ awb.is_valid /\ Len(ranges) = 2

\* C2: for every index parse_awb decodes, the entry ranges are non-empty,
\* ascending and non-overlapping: start_i < end_i for every entry and
\* end_i <= start_{i+1} for every consecutive pair.
C2_RangesAscending ==
    \A k \in 1..Len(ranges) :
        /\ ranges[k][1] < ranges[k][2]
        /\ k < Len(ranges) => ranges[k][2] <= ranges[k + 1][1]

\* x is the smallest multiple of a that is >= raw (raw itself when a = 0)
LeastMultiple(x, raw, a) ==
    IF a = 0 THEN x = raw ELSE x % a = 0 /\ x >= raw /\ x - raw < a

\* the raw offset the start of entry k (from 1) is derived from
RawStart(k) == IF k = 1 THEN TableOffset(0) ELSE ranges[k - 1][2]

InEntryLoop == pc \in {"loop", "hca_magic", "hca_fmt", "hca_comp", "hca_scan", "hca_finish", "append"}

\* C3: every entry's start is the smallest multiple of the declared
\* alignment that is >= the raw offset it was derived from (the first size
\* field for entry 0, the previous entry's end for later entries); with
\* alignment 0, and for a raw offset that is already aligned, the start is
\* the raw offset.
C3_StartIsLeastMultiple ==
    /\ \A k \in 1..Len(ranges) : LeastMultiple(ranges[k][1], RawStart(k), awb.alignment)
    /\ InEntryLoop => LeastMultiple(start, RawStart(i + 1), awb.alignment)

C3_Witness ==
    /\ Done /\ awb.alignment = 32 /\ Len(ranges) = 2
    /\ ranges[1][1] > RawStart(1)
    /\ ranges[2][1] = RawStart(2)
    /\ ranges[2][1] > 0

\* the file is a whole archive written from several of the entry streams
Built == src.kind \in {"multi", "ten"}

\* what the description of a stream says of its header
WellFormed(s) ==
    /\ s.cut < 0
    /\ [k \in 1..4 |-> s.magic[k] % 128] = <<72, 67, 65, 0>>
    /\ [k \in 1..4 |-> s.fmt[k] % 128] = <<102, 109, 116, 0>>
    /\ s.ch \in 1..16
    /\ s.sr \in 1..8388607

\* the header agrees with the description of its stream in the fields of
\* the fmt and comp chunks
SameFormat(h, s) ==
    /\ h.version = 512
    /\ h.data_offset = (IF s.dataoff < 0 THEN HeaderLen(s) ELSE s.dataoff)
    /\ h.channel_count = s.ch
    /\ h.sample_rate = s.sr
    /\ h.block_count = s.blocks
    /\ h.block_size = 256
    /\ h.total_samples = 1024 * s.blocks
    /\ h.duration_sec = <<1024 * s.blocks, s.sr>>

\* C4: an index declaring N entries whose header and offset table are
\* readable gives exactly N entries; in an archive written from N streams
\* the invalid entries are exactly those whose own stream is malformed, and
\* every other entry carries the header of its own stream, whatever the
\* other streams are (ten entries, one cut in its header: one invalid
\* entry, nine valid).
C4_OneBadEntryOnly ==
    (Done /\ IndexReadable) =>
        /\ awb.is_valid
        /\ Len(awb.tracks) = U32LE(data, 8)
        /\ Built =>
             \A k \in 1..Len(src.streams) :
                /\ awb.tracks[k].is_valid = WellFormed(src.streams[k])
                /\ awb.tracks[k].is_valid => SameFormat(awb.tracks[k], src.streams[k])

C4_Witness ==
    /\ Done /\ IndexReadable /\ src.kind = "ten"
    /\ Len(awb.tracks) = 10
    /\ ~awb.tracks[6].is_valid
    /\ Cardinality({k \in 1..10 : awb.tracks[k].is_valid}) = 9

\* C5: entries are produced in index order and tagged: the k-th entry has
\* index k, the k-th 16-bit identifier of the index, and the length
\* end - start of the range it was sliced with, where end is the k-th end
\* offset of the table; valid or not.
C5_EntriesTagged ==
    /\ Len(awb.tracks) = Len(ranges)
    /\ \A k \in 1..Len(awb.tracks) :
          /\ awb.tracks[k].index = k - 1
          /\ awb.tracks[k].file_id = data[16 + 2 * (k - 1) + 1] + 256 * data[16 + 2 * (k - 1) + 2]
          /\ ranges[k][2] = TableOffset(k)
          /\ awb.tracks[k].size = ranges[k][2] - ranges[k][1]

C5_Witness ==
    /\ Done /\ Len(awb.tracks) = 3
    /\ awb.tracks[1].is_valid /\ ~awb.tracks[2].is_valid /\ awb.tracks[3].is_valid
    /\ awb.tracks[3].file_id = 314 /\ awb.tracks[3].index = 2

\* the header of the index was read and its width byte is neither 2 nor 4
BadWidth == Done /\ Len(data) >= 16 /\ SubSeq(data, 1, 4) = <<65, 70, 83, 50>> /\ data[6] \notin {2, 4}

WidthRejected ==
    /\ ~awb.is_valid
    /\ awb.error = <<"Unknown size length", data[6]>>
    /\ awb.tracks = <<>>

Returned == pc = "append"

MagicMatches == Len(hdata) >= 4 /\ [k \in 1..4 |-> hdata[k] % 128] = <<72, 67, 65, 0>>

FmtMatches == Len(hdata) >= 12 /\ [k \in 1..4 |-> hdata[8 + k] % 128] = <<102, 109, 116, 0>>

\* the two halves of the packed format field, as the buffer holds them
PackedChannels == hdata[13]
PackedRate == 65536 * hdata[14] + 256 * hdata[15] + hdata[16]

\* the buffer holds a packed format field that is out of range
FormatOutOfRange ==
    /\ Len(hdata) >= 16 /\ MagicMatches /\ FmtMatches
    /\ PackedChannels \notin 1..16 \/ PackedRate \notin 1..8388607

RangeRejected ==
    /\ ~hca.is_valid
    /\ hca.error = (IF PackedChannels \notin 1..16
                    THEN <<"Invalid channel count", PackedChannels>>
                    ELSE <<"Invalid sample rate", PackedRate>>)
    /\ hca.duration_sec = <<0, 1>>
    /\ hca.size = Len(hdata)

\* C7 as the spec states it: every header whose packed format field gives a
\* channel count outside [1,16] or a sample rate outside [1,0x7FFFFF] is
\* returned invalid with a range-violation reason, duration 0 and its size.
C7_RangeViolation_AsStated == (Returned /\ FormatOutOfRange) => RangeRejected

\* C7 amended: such a header is returned invalid with duration 0 and its
\* size; the reason is the range violation when the whole format block (24
\* bytes, through the two mute fields) is in the buffer, and the read error
\* of the first missing field otherwise.
C7_RangeViolation ==
    (Returned /\ FormatOutOfRange) =>
        IF Len(hdata) >= 24 THEN RangeRejected
        ELSE /\ ~hca.is_valid
             /\ hca.error = <<"unpack requires a buffer of n bytes", IF Len(hdata) < 20 THEN 4 ELSE 2>>
             /\ hca.duration_sec = <<0, 1>>
             /\ hca.size = Len(hdata)

C7_Witness ==
    /\ Returned /\ FormatOutOfRange /\ Len(hdata) >= 24
    /\ PackedChannels = 16 /\ PackedRate = 8388608
    /\ hca.error = <<"Invalid sample rate", 8388608>>

\* parse_hca went past its magic check
MagicAccepted ==
    \/ pc \in {"hca_fmt", "hca_comp", "hca_scan", "hca_finish"}
    \/ /\ Returned
       /\ \/ hca.error = <<>>
          \/ hca.error[1] \notin {"Data too small for HCA header", "Invalid HCA magic"}

MagicRejected ==
    /\ Returned
    /\ ~hca.is_valid
    /\ hca.error = <<"Invalid HCA magic", IF Len(hdata) >= 4 THEN SubSeq(hdata, 1, 4) ELSE hdata>>
    /\ hca.size = Len(hdata)

AfterMagic == pc \in {"hca_fmt", "hca_comp", "hca_scan", "hca_finish", "append"}

\* C8 as the spec states it: the magic is accepted iff the first four
\* bytes, bit 7 cleared, are 'H','C','A',0; otherwise the header is invalid
\* with a magic-mismatch reason and carries the length of the buffer.
C8_MaskedMagic_AsStated ==
    (AfterMagic /\ Len(hdata) >= 4) =>
        /\ MagicAccepted <=> MagicMatches
        /\ ~MagicMatches => MagicRejected

\* C8 amended: for a buffer of at least 8 bytes the magic is accepted iff
\* the first four bytes, bit 7 cleared, are 'H','C','A',0, and otherwise the
\* header is invalid with a magic-mismatch reason and the length of the
\* buffer; a buffer of fewer than 8 bytes is rejected as too small,
\* whatever its bytes, with the length of the buffer.
C8_MaskedMagic ==
    AfterMagic =>
        IF Len(hdata) >= 8
        THEN /\ MagicAccepted <=> MagicMatches
             /\ ~MagicMatches => MagicRejected
        ELSE /\ Returned
             /\ ~hca.is_valid
             /\ hca.error = <<"Data too small for HCA header">>
             /\ hca.size = Len(hdata)

C8_Witness ==
    /\ Returned /\ hca.is_valid
    /\ hdata[1] = 200 /\ hdata[2] = 67 /\ hdata[3] = 193 /\ hdata[4] = 128

\* the stream parse_hca is decoding, in an archive written from streams
FromStreams == src.kind \in {"single", "multi", "ten"}
CurStream == src.streams[i + 1]

IsCipher(kind) == kind \in {"ciph0", "ciph56", "ciphhi"}
CipherCode(kind) == IF kind = "ciph0" THEN 0 ELSE IF kind = "ciph56" THEN 56 ELSE 257

\* the offset after the tag of the k-th trailing chunk of stream s
TagEnd(s, k) == 24 + Len(CompBytes(s.comp)) + Len(ChunksBytes(SubSeq(s.chunks, 1, k - 1))) + 4

\* the k-th trailing chunk of s lies before the declared data offset, behind
\* no chunk that ends the scan
Reached(s, k) ==
    /\ TagEnd(s, k) <= (IF s.dataoff < 0 THEN HeaderLen(s) ELSE s.dataoff)
    /\ \A j \in 1..(k - 1) : s.chunks[j] \notin {"pad", "zero", "unk"}

ReachedCiphers(s) == {k \in 1..Len(s.chunks) : IsCipher(s.chunks[k]) /\ Reached(s, k)}

Last(S) == CHOOSE k \in S : \A j \in S : j <= k

\* C9: a valid header with a cipher sub-block before the data offset (the
\* last one, when there are several) has cipher_type equal to the 16-bit
\* code of that sub-block and is_encrypted true exactly when the code is
\* nonzero; a valid header with none has cipher_type 0 and is_encrypted
\* false.
C9_CipherReported ==
    (Returned /\ hca.is_valid /\ FromStreams /\ CurStream.cut < 0) =>
        LET c == ReachedCiphers(CurStream)
            code == CipherCode(CurStream.chunks[Last(c)])
        IN  IF c = {}
            THEN hca.cipher_type = 0 /\ ~hca.is_encrypted
            ELSE hca.cipher_type = code /\ hca.is_encrypted = (code # 0)

C9_Witness ==
    /\ Returned /\ hca.is_valid /\ FromStreams
    /\ CurStream.chunks = <<"rva", "ciph56">> /\ CurStream.cut < 0
    /\ hca.cipher_type = 56 /\ hca.is_encrypted

\* the masked tag the chunk loop is about to dispatch on
TagAtPos == [k \in 1..4 |-> hdata[hpos + k] % 128]
Dispatching == pc = "hca_scan" /\ hpos + 4 <= hca.data_offset /\ hpos + 4 <= Len(hdata)

TagsLoopCiphRvaComm ==
    {<<108, 111, 111, 112>>, <<99, 105, 112, 104>>, <<114, 118, 97, 0>>, <<99, 111, 109, 109>>}
TagsVbrAth == {<<118, 98, 114, 0>>, <<97, 116, 104, 0>>}

HcaSteps == {"hca_magic", "hca_fmt", "hca_comp", "hca_scan", "hca_finish"}

\* the bytes the sub-block with masked tag t reads after its tag
PayloadRead(t) ==
    IF t = <<108, 111, 111, 112>> THEN 10
    ELSE IF t = <<99, 105, 112, 104>> THEN 2
    ELSE IF t = <<114, 118, 97, 0>> THEN 4
    ELSE IF t = <<99, 111, 109, 109>> THEN 1
    ELSE 0

\* the offset up to which the step about to run reads the buffer
ReadEnd ==
    IF pc = "hca_magic" THEN 8
    ELSE IF pc = "hca_fmt" THEN (IF FmtMatches THEN 24 ELSE 12)
    ELSE IF pc = "hca_comp" THEN 30
    ELSE IF Dispatching THEN hpos + 4 + PayloadRead(TagAtPos)
    ELSE 0

ReadPastEnd == pc \in HcaSteps /\ ReadEnd > Len(hdata)

\* C11: parse_hca never raises: each of its steps goes on to another of its
\* steps or hands the header back, with size equal to the length of the
\* buffer; and a step that reads past the end of the buffer (in the magic,
\* the format block, the compression block or a trailing sub-block) hands
\* back a header with is_valid false and a non-empty reason.
C11_ReadPastEndInvalid ==
    [][/\ pc \in HcaSteps =>
            (pc' \in HcaSteps \cup {"append"} /\ hca'.size = Len(hdata'))
       /\ ReadPastEnd =>
            (pc' = "append" /\ ~hca'.is_valid /\ hca'.error # <<>>
             /\ hca'.size = Len(hdata))]_vars

\* a volume sub-block cut short: the header came back invalid
C11_Witness ==
    /\ pc = "append" /\ hpos >= 36 /\ hpos <= Len(hdata) /\ hpos + 4 > Len(hdata)
    /\ [k \in 1..4 |-> hdata[hpos - 4 + k] % 128] = <<114, 118, 97, 0>>
    /\ ~hca.is_valid /\ hca.error = <<"unpack requires a buffer of n bytes", 4>>

(***************************************************************************)
(* Properties of parse_utf and parse_acb (SpecUtf).                        *)
(***************************************************************************)
\* the file is a whole table, as the description says
WholeTable == usrc.kind \in {"grid", "catalog"}

KeysOf(row) == {row[j].key : j \in 1..Len(row)}

\* the names of the columns of the sheet with a nonzero storage method
StoredNames(sheet) == {sheet.cols[c].key : c \in {k \in 1..Len(sheet.cols) : sheet.cols[k].m # 0}}

\* C12: in a decoded table a column with storage method 0 contributes no
\* entry to the row: the key set of every row is exactly the names of the
\* columns with a nonzero storage method.
C12_AbsentColumnOmitted ==
    WholeTable => \A r \in 1..Len(pages) : KeysOf(pages[r]) = StoredNames(usrc.sheet)

\* the column the next step decodes: its schema byte, storage method and
\* type, as the buffer holds them
AtColumn == upc = "utf_elem" /\ elem_idx < uhdr.element_count
SchemaFits == upos + 5 <= Len(udata)
ColMethod == (udata[upos + 1] \div 32) % 8
ColType == udata[upos + 1] % 32
ColReadPos == IF ColMethod = 1 THEN upos + 5 ELSE value_pos

\* the end of the fixed-width reads of the column: type byte, key offset
\* and, for a stored column, the value field of its type
FixedEnd ==
    IF ~SchemaFits \/ ColMethod = 0 THEN upos + 5 ELSE ColReadPos + WidthOf(ColType)

MagicIsUTF(d) == Len(d) >= 4 /\ SubSeq(d, 1, 4) = <<64, 85, 84, 70>>

\* the slice a blob column refers to, cut to the buffer
BlobSlice ==
    LET from == uhdr.base + uhdr.data_offset + U32BE(udata, ColReadPos)
        upto == from + U32BE(udata, ColReadPos + 4)
    IN  [k \in 1..(Min(upto, Len(udata)) - Min(from, Len(udata))) |->
            udata[Min(from, Len(udata)) + k]]

\* the column is a blob whose slice is taken for a nested table
NestedAttempt ==
    /\ SchemaFits /\ ColMethod > 0 /\ ColType = 27 /\ FixedEnd <= Len(udata)
    /\ MagicIsUTF(BlobSlice) /\ Len(BlobSlice) >= 8

Aborted == upc = "acb_project" /\ utf.st = "raise"
ParseReturned == upc \in {"acb_project", "acb_done"}

\* C13 as the spec states it: a table file cut short anywhere (every byte
\* of the whole file is part of a region the decode refers to) is never
\* decoded to a table.
C13_OutOfBoundsAborts_AsStated ==
    (ParseReturned /\ usrc.kind = "cut") => utf.st # "ok"

\* C13 amended: the decode is aborted, and no table returned, exactly by a
\* fixed-width read that does not fit the buffer: a sub-header field, the
\* type byte and key offset of a column, the value field of a stored column
\* (1, 2, 4 or 8 bytes; 4 for a string offset, 8 for a blob offset and
\* length).  A string-region offset at or beyond the end is not such a
\* read: it gives the empty string, and a blob slice reaching beyond the
\* end is cut to the bytes the buffer holds; the decode goes on.
C13_OutOfBoundsAborts ==
    [][/\ (upc = "acb_read" /\ MagicIsUTF(udata) /\ Len(udata) >= 8) =>
            (Aborted' <=> Len(udata) < 32)
       /\ (AtColumn /\ FixedEnd > Len(udata)) => Aborted'
       /\ (AtColumn /\ FixedEnd <= Len(udata) /\ ~NestedAttempt) =>
            /\ upc' = "utf_elem" /\ Len(page') >= 1
            /\ (ColMethod > 0 /\ ColType = 26
                /\ uhdr.string_base + U32BE(udata, ColReadPos) >= Len(udata)) =>
                   \E j \in 1..Len(page') :
                       page'[j].value.t = "str" /\ page'[j].value.v = <<>>
            /\ (ColMethod > 0 /\ ColType = 27) =>
                   \E j \in 1..Len(page') :
                       page'[j].value.t = "bytes" /\ page'[j].value.v = BlobSlice
       /\ Aborted => acb' = [ACBMetadata EXCEPT !.error = utf.err]]_vars

\* a table cut inside its value region: the decode was aborted after the
\* first row, and nothing of the table is reported
C13_Witness ==
    /\ upc = "acb_done" /\ usrc.kind = "cut" /\ utf.st = "raise" /\ Len(pages) >= 1
    /\ acb = [ACBMetadata EXCEPT !.error = <<"unpack requires a buffer of n bytes", 2>>]

\* a table cut inside its string region: the strings beyond the cut come
\* out empty and the table is returned
C13_WitnessClamped ==
    /\ upc = "acb_done" /\ usrc.kind = "cut" /\ utf.st = "ok"
    /\ \E j \in 1..Len(pages[1]) : pages[1][j].key = <<>>

\* the column is a stored blob whose offset and length fields fit the buffer
AtBlob == AtColumn /\ SchemaFits /\ ColMethod > 0 /\ ColType = 27 /\ FixedEnd <= Len(udata)

\* a slice that cannot be a whole table: no magic, or shorter than the
\* magic, the data size and the sub-header
NotATable(b) == ~MagicIsUTF(b) \/ Len(b) < 32

\* C14: a blob whose slice does not decode as a nested table (wrong magic,
\* too short, or the magic followed by truncated contents) has the raw slice
\* as its value, and the decode of the enclosing table goes on.
C14_NestedFailureIsRaw ==
    [][(AtBlob /\ NotATable(BlobSlice)) =>
          /\ upc' = "utf_elem"
          /\ \E j \in 1..Len(page') :
                 page'[j].value.t = "bytes" /\ page'[j].value.v = BlobSlice]_vars

DistinctKeys(sheet) ==
    \A a, b \in 1..Len(sheet.cols) : a # b => sheet.cols[a].key # sheet.cols[b].key

\* the schema bytes of the first c columns: type byte, key offset and, for
\* an inline column, its value field
RECURSIVE SchemaLen(_, _)
SchemaLen(sheet, c) ==
    IF c = 0 THEN 0
    ELSE SchemaLen(sheet, c - 1) + 5
         + (IF sheet.cols[c].m = 1 THEN WidthOf(sheet.cols[c].ty) ELSE 0)

InlineColumns(sheet) == {c \in 1..Len(sheet.cols) : sheet.cols[c].m = 1}
PerRowColumns(sheet) == {c \in 1..Len(sheet.cols) : sheet.cols[c].m >= 2}

\* C15: in a table with two or more rows every inline column (storage
\* method 1) has the same value in every row; the schema walk of every row
\* starts at the same position, right after the sub-header, and ends at
\* the same position, having consumed the same schema bytes.
C15_InlineConstant ==
    (WholeTable /\ DistinctKeys(usrc.sheet)) =>
        /\ \A r \in 2..Len(pages) : \A c \in InlineColumns(usrc.sheet) :
               /\ pages[r][c].key = usrc.sheet.cols[c].key
               /\ pages[r][c].value = pages[1][c].value
        /\ (upc = "utf_elem" /\ elem_idx = 0) => upos = 32
        /\ (upc = "utf_elem" /\ elem_idx = uhdr.element_count) =>
               upos = 32 + SchemaLen(usrc.sheet, Len(usrc.sheet.cols))

\* two rows decoded from a schema with an inline string and a per-row
\* number: the string is the same in both rows, the number is not
C15_Witness ==
    /\ upc = "acb_done" /\ utf.st = "ok" /\ WholeTable /\ Len(pages) = 2
    /\ Len(usrc.sheet.cols) = 2
    /\ usrc.sheet.cols[1].m = 1 /\ usrc.sheet.cols[1].ty = 26
    /\ usrc.sheet.cols[2].m = 2 /\ usrc.sheet.cols[2].ty = 17
    /\ pages[1][1].value = pages[2][1].value /\ pages[1][1].value.v # <<>>
    /\ pages[1][2].value # pages[2][2].value

\* the width of the value fields of the per-row columns among the first c
RECURSIVE PerRowWidth(_, _)
PerRowWidth(sheet, c) ==
    IF c = 0 THEN 0
    ELSE PerRowWidth(sheet, c - 1)
         + (IF sheet.cols[c].m >= 2 THEN WidthOf(sheet.cols[c].ty) ELSE 0)

\* where the value region of the file starts
ValueRegion(sheet) == 32 + SchemaLen(sheet, Len(sheet.cols))

\* C16: the value cursor starts at the value-region offset, is never reset
\* between rows and only moves forward: a column with storage method >= 2
\* reads its value at the cursor and advances it by the width of its type,
\* so before column k of row r the cursor is at the value-region offset
\* plus the widths of all per-row columns consumed in the rows before and
\* in row r before column k.
C16_SequentialCursor ==
    /\ [](/\ (WholeTable /\ upc = "utf_elem") =>
               value_pos = ValueRegion(usrc.sheet)
                           + page_idx * PerRowWidth(usrc.sheet, Len(usrc.sheet.cols))
                           + PerRowWidth(usrc.sheet, elem_idx)
          /\ (WholeTable /\ upc = "utf_page") =>
               value_pos = ValueRegion(usrc.sheet)
                           + page_idx * PerRowWidth(usrc.sheet, Len(usrc.sheet.cols)))
    /\ [][/\ value_pos' >= value_pos
          /\ (AtColumn /\ SchemaFits /\ upc' = "utf_elem") =>
               /\ value_pos' = value_pos + (IF ColMethod >= 2 THEN WidthOf(ColType) ELSE 0)
               /\ (ColMethod >= 2 /\ ColType = 17 /\ DistinctKeys(usrc.sheet)) =>
                      /\ page'[Len(page')].value.t = "int"
                      /\ page'[Len(page')].value.v[1] = udata[value_pos + 1]
               /\ (ColMethod >= 2 /\ ColType = 21 /\ DistinctKeys(usrc.sheet)) =>
                      /\ page'[Len(page')].value.t = "int"
                      /\ BE32(page'[Len(page')].value.v[1]) =
                            [k \in 1..4 |-> udata[value_pos + k]]]_vars

\* the second row of a table with a 4-byte and a 1-byte per-row column:
\* the second column is about to be read at the value region plus 5 + 4
C16_Witness ==
    /\ upc = "utf_elem" /\ WholeTable /\ page_idx = 1 /\ elem_idx = 1
    /\ Len(usrc.sheet.cols) = 2
    /\ usrc.sheet.cols[1].m = 2 /\ usrc.sheet.cols[1].ty = 21
    /\ usrc.sheet.cols[2].m = 2 /\ usrc.sheet.cols[2].ty = 17
    /\ value_pos = uhdr.base + uhdr.value_offset + 9
    /\ Len(pages) = 1

\* C17 as the spec states it: parse_utf returns None exactly when the four
\* bytes at the offset are not '@UTF'.
C17_NoneIffMagic_AsStated ==
    ParseReturned => (utf.st = "none" <=> ~MagicIsUTF(udata))

\* C17 amended: parse_utf returns None exactly when the buffer is shorter
\* than 8 bytes (magic and data size) or its first four bytes are not
\* '@UTF'; for a buffer of 8 bytes or more whose magic matches, the result
\* is a table or a decode failure, never None.
C17_NoneIffMagic ==
    ParseReturned => (utf.st = "none" <=> (Len(udata) < 8 \/ ~MagicIsUTF(udata)))

\* a file of the magic and fewer than four more bytes: None
C17_Witness ==
    /\ ParseReturned /\ utf.st = "none"
    /\ Len(udata) \in 4..7 /\ SubSeq(udata, 1, 4) = <<64, 85, 84, 70>>

\* the sheet stores a column of that name (in the schema, with a nonzero
\* storage method)
Stores(sheet, key) ==
    \E c \in 1..Len(sheet.cols) : sheet.cols[c].key = key /\ sheet.cols[c].m > 0

ColumnOf(sheet, key) ==
    sheet.cols[CHOOSE c \in 1..Len(sheet.cols) : sheet.cols[c].key = key]

IsDefault(val, t, v) == val.t = t /\ val.v = v

\* the catalog file was decoded and parse_acb has returned
CatalogDone == upc = "acb_done" /\ usrc.kind = "catalog" /\ usrc.sheet.rows >= 1

\* C18: parse_acb defaults every projected field whose column is absent:
\* the name is '' and the version 0, each field of a waveform descriptor is
\* 0, and no absent column makes the projection fail.
C18_AbsentColumnsDefault ==
    CatalogDone =>
        /\ utf.st = "ok" => acb.is_valid
        /\ (acb.is_valid /\ ~Stores(usrc.sheet, KeyName)) => IsDefault(acb.name, "str", <<>>)
        /\ (acb.is_valid /\ ~Stores(usrc.sheet, KeyVersion)) =>
               IsDefault(acb.version, "int", <<0>>)
        /\ (acb.is_valid /\ Stores(usrc.sheet, KeyWaveformTable)) =>
               LET wave == ColumnOf(usrc.sheet, KeyWaveformTable).sub[1]
               IN  \A k \in 1..Len(acb.waveforms) :
                       /\ ~Stores(wave, KeyId) => IsDefault(acb.waveforms[k].id, "int", <<0>>)
                       /\ ~Stores(wave, KeyStreaming) =>
                              IsDefault(acb.waveforms[k].streaming, "int", <<0>>)
                       /\ ~Stores(wave, KeyEncodeType) =>
                              IsDefault(acb.waveforms[k].encode_type, "int", <<0>>)
                       /\ ~Stores(wave, KeyMemoryAwbId) =>
                              IsDefault(acb.waveforms[k].memory_awb_id, "int", <<0>>)
                       /\ ~Stores(wave, KeyStreamAwbId) =>
                              IsDefault(acb.waveforms[k].stream_awb_id, "int", <<0>>)
                       /\ ~Stores(wave, KeyStreamAwbPortNo) =>
                              IsDefault(acb.waveforms[k].stream_awb_port, "int", <<0>>)

InSchema(sheet, key) == \E c \in 1..Len(sheet.cols) : sheet.cols[c].key = key

\* the blob cell of the column named key (its first one: the inline cell,
\* or that of the first row), as an index into the blob pool
BlobIndex(sheet, key) ==
    CHOOSE j \in 1..Len(BlobCells(sheet)) :
        /\ sheet.cols[BlobCells(sheet)[j][2]].key = key
        /\ BlobCells(sheet)[j][1] <= 1

RECURSIVE TotalLen(_)
TotalLen(ss) == IF ss = <<>> THEN 0 ELSE Len(Head(ss)) + TotalLen(Tail(ss))

\* the length the file declares for the blob of the column named key
DeclaredLen(sheet, key) ==
    LET pool == BlobPool(sheet, BlobCells(sheet))
    IN  Len(pool[BlobIndex(sheet, key)])
        + (IF ColumnOf(sheet, key).fill = "over" THEN 100 ELSE 0)

\* the bytes the file holds from the start of that blob to its end
HeldLen(sheet, key) ==
    LET pool == BlobPool(sheet, BlobCells(sheet))
        j == BlobIndex(sheet, key)
    IN  IF ColumnOf(sheet, key).fill = "far" THEN 0
        ELSE Min(DeclaredLen(sheet, key), TotalLen(SubSeq(pool, j, Len(pool))))

\* the root row has a stored blob column AwbFile
HasBlobAwbFile ==
    /\ usrc.sheet.rows >= 1
    /\ Stores(usrc.sheet, KeyAwbFile) /\ ColumnOf(usrc.sheet, KeyAwbFile).ty = 27

AcbDone == upc = "acb_done" /\ usrc.kind = "catalog"

\* C19 as the spec states it: has_memory_awb is true exactly when the root
\* row has a blob-typed AwbFile of nonzero length, and memory_awb_size is
\* then the length declared for the blob; otherwise they are false and 0.
C19_MemoryAwb_AsStated ==
    (AcbDone /\ acb.is_valid) =>
        LET has == HasBlobAwbFile /\ DeclaredLen(usrc.sheet, KeyAwbFile) > 0
        IN  /\ acb.has_memory_awb = has
            /\ acb.memory_awb_size = IF has THEN DeclaredLen(usrc.sheet, KeyAwbFile) ELSE 0

\* C19 amended: has_memory_awb is true exactly when the table was decoded
\* and the AwbFile value of the root row is a raw byte slice of nonzero
\* length: the column is a stored blob, its slice is not itself a nested
\* table, and the buffer holds at least one byte of it; memory_awb_size is
\* then the number of bytes of the slice the buffer holds, which is the
\* declared length or less.  Otherwise they are false and 0.
C19_MemoryAwb ==
    AcbDone =>
        LET has == /\ acb.is_valid /\ HasBlobAwbFile
                   /\ ColumnOf(usrc.sheet, KeyAwbFile).fill # "tab"
                   /\ HeldLen(usrc.sheet, KeyAwbFile) > 0
        IN  /\ acb.has_memory_awb = has
            /\ acb.memory_awb_size = IF has THEN HeldLen(usrc.sheet, KeyAwbFile) ELSE 0

\* an embedded archive of 6 bytes declared as 106: the size reported is 6
C19_Witness ==
    /\ AcbDone /\ acb.is_valid /\ HasBlobAwbFile
    /\ ColumnOf(usrc.sheet, KeyAwbFile).fill = "over"
    /\ DeclaredLen(usrc.sheet, KeyAwbFile) = 106
    /\ acb.has_memory_awb /\ acb.memory_awb_size = 6
(***************************************************************************)
(* scan_directory.                                                         *)
(***************************************************************************)
ScanReturned == spc = "returned"

IsAcbFile(f) == EndsWith(Lower(f.file), ExtAcb)
IsAwbFile(f) == EndsWith(Lower(f.file), ExtAwb)

\* the catalog and blob files of the walk
PairedFiles == {listing[k] : k \in {j \in 1..Len(listing) : IsAcbFile(listing[j]) \/ IsAwbFile(listing[j])}}

\* the case-normalized base name of a file, extension stripped
NormalBase(f) == Lower(SplitExt(f.file))

\* the groups of the walk: a directory and a case-normalized base name
Groups == {<<f.root, NormalBase(f)>> : f \in PairedFiles}

FilesOf(g) == {f \in PairedFiles : f.root = g[1] /\ NormalBase(f) = g[2]}

\* the reported pairs of a group: those of its directory whose base name
\* is the group's, case-normalized
PairsOf(g) ==
    {k \in 1..Len(archives) :
        /\ Lower(archives[k].value.base_name) = g[2]
        /\ archives[k].key = Join(g[1], archives[k].value.base_name)}

\* C20: scan_directory groups the catalog and blob files of a directory by
\* case-normalized base name, extension stripped: every group is reported
\* as exactly one pair, which has a catalog side iff the group has a
\* catalog file and a blob side iff it has a blob file (so Voice.acb and
\* voice.awb share a pair, and a base name with one file is one pair with
\* the other side absent).
C20_GroupedByNormalBase ==
    ScanReturned =>
        /\ Len(result) = Cardinality(Groups)
        /\ \A g \in Groups :
               /\ Cardinality(PairsOf(g)) = 1
               /\ \A k \in PairsOf(g) :
                      /\ (result[k].acb # <<>>) = (\E f \in FilesOf(g) : IsAcbFile(f))
                      /\ (result[k].awb # <<>>) = (\E f \in FilesOf(g) : IsAwbFile(f))
\* the blob side of a reported pair has entries
HasTracks(archive) == archive.awb # <<>> /\ Len(archive.awb[1].tracks) > 0

\* the positions of the valid entries of a track list
ValidAt(tracks) == {k \in 1..Len(tracks) : tracks[k].is_valid}

\* the position of the n-th valid entry of a track list
NthValid(tracks, n) ==
    CHOOSE k \in ValidAt(tracks) : Cardinality({j \in ValidAt(tracks) : j <= k}) = n

\* C21: for every pair scan_directory reports, total_tracks is the number of
\* entries of the blob side and total_duration_sec is the sum of duration_sec
\* over exactly the valid entries, in order (an invalid entry is no addend
\* and does not end the sum); a pair with no blob side, or with no entries,
\* has both totals 0.
C21_Totals ==
    ScanReturned =>
        \A k \in 1..Len(result) :
            IF HasTracks(result[k])
            THEN LET tracks == result[k].awb[1].tracks
                     sum == result[k].total_duration_sec
                 IN  /\ result[k].total_tracks = Len(tracks)
                     /\ Len(sum) = Cardinality(ValidAt(tracks))
                     /\ \A n \in 1..Len(sum) : sum[n] = tracks[NthValid(tracks, n)].duration_sec
            ELSE /\ result[k].total_tracks = 0
                 /\ result[k].total_duration_sec = <<>>

\* a reported pair whose blob side has a valid entry, an invalid one and a
\* valid one after it, and a pair without blob side
C21_Witness ==
    /\ ScanReturned
    /\ \E k \in 1..Len(result) :
           /\ HasTracks(result[k])
           /\ result[k].total_tracks = 3
           /\ ValidAt(result[k].awb[1].tracks) = {1, 3}
           /\ Len(result[k].total_duration_sec) = 2
           /\ result[k].total_duration_sec[2] # <<0, 1>>
    /\ \E k \in 1..Len(result) : result[k].awb = <<>> /\ result[k].total_tracks = 0
(***************************************************************************)
(* Duration and loop points of a header.                                   *)
(***************************************************************************)
\* C22: a valid header returned by parse_hca has total_samples =
\* block_count * 1024 and duration_sec = total_samples / sample_rate with a
\* positive sample_rate (so duration_sec * sample_rate is total_samples, well
\* within one block of 1024 samples); an invalid header has total_samples 0
\* and duration_sec 0, whatever block_count was read.
C22_Duration ==
    Returned =>
        IF hca.is_valid
        THEN /\ hca.total_samples = hca.block_count * 1024
             /\ hca.sample_rate > 0
             /\ hca.duration_sec = <<hca.total_samples, hca.sample_rate>>
        ELSE /\ hca.total_samples = 0
             /\ hca.duration_sec = <<0, 1>>

\* a valid header of 7 blocks at 22050 Hz
C22_Witness ==
    /\ Returned /\ hca.is_valid
    /\ hca.block_count = 7 /\ hca.sample_rate = 22050
    /\ hca.total_samples = 7168
    /\ hca.duration_sec = <<7168, 22050>>

\* an invalid header whose block count was read
C22_WitnessInvalid == Returned /\ ~hca.is_valid /\ hca.block_count > 0 /\ hca.total_samples = 0
(***************************************************************************)
(* The descent of parse_utf into nested tables.                            *)
(***************************************************************************)
\* the column at schema position p is a stored blob whose offset and length
\* fields can be read (rp is where they are)
BlobRead(d, p, rp) ==
    /\ p + 5 <= Len(d)
    /\ (d[p + 1] \div 32) % 8 > 0
    /\ d[p + 1] % 32 = 27
    /\ rp + 8 <= Len(d)

RECURSIVE ElemCalls(_, _, _, _, _)
RECURSIVE PageCalls(_, _, _, _)

\* the buffers a decode of d hands to a nested parse_utf in the columns e..
\* of one row, up to the column that raises
ElemCalls(d, h, e, p, vp) ==
    IF e >= h.element_count THEN [calls |-> {}, ok |-> TRUE, value_pos |-> vp]
    ELSE LET rp == IF p < Len(d) /\ (d[p + 1] \div 32) % 8 = 1 THEN p + 5 ELSE vp
             here == IF BlobRead(d, p, rp) THEN {BufData(d, h, rp)} ELSE {}
         IN  With(ReadColumn(d, h, p, vp), LAMBDA c :
                 IF c.st = "raise" THEN [calls |-> here, ok |-> FALSE, value_pos |-> vp]
                 ELSE With(ElemCalls(d, h, e + 1, c.pos, c.value_pos), LAMBDA rest :
                         [calls |-> here \cup rest.calls, ok |-> rest.ok,
                          value_pos |-> rest.value_pos]))

\* the same over the rows r..
PageCalls(d, h, r, vp) ==
    IF r >= h.page_count THEN {}
    ELSE With(ElemCalls(d, h, 0, h.first_pos, vp), LAMBDA e :
            IF e.ok THEN e.calls \cup PageCalls(d, h, r + 1, e.value_pos) ELSE e.calls)

\* the buffers parse_utf(d) calls itself on
NestedCalls(d) ==
    With(UtfHeader(d, 0), LAMBDA hr :
        IF hr.st = "ok" THEN PageCalls(d, hr.h, 0, hr.h.value_pos) ELSE {})

RECURSIVE Descends(_)
RECURSIVE Depth(_)

\* every nested decode below d runs on a buffer at least 8 bytes shorter
\* than its parent's
Descends(d) == \A s \in NestedCalls(d) : Len(s) + 8 <= Len(d) /\ Descends(s)

\* the longest chain of nested decodes below d
Depth(d) ==
    LET below == {Depth(s) : s \in NestedCalls(d)}
    IN  IF below = {} THEN 0 ELSE 1 + CHOOSE n \in below : \A m \in below : m <= n

UtfReturned == upc = "acb_project"

\* where the decode of the file is: before the header, in the rows, back in
\* parse_acb, returned
Phase ==
    IF upc = "acb_read" THEN 0
    ELSE IF upc \in {"utf_page", "utf_elem"} THEN 1
    ELSE IF upc = "acb_project" THEN 2
    ELSE 3

\* the position inside a row: at its head, or after elem_idx columns
InRow == IF upc = "utf_elem" THEN 1 + elem_idx ELSE 0

\* a step moves the decode forward: to a later phase, a later row, or a
\* later column of the row
Advances ==
    \/ Phase' > Phase
    \/ /\ Phase' = 1 /\ Phase = 1
       /\ \/ page_idx' > page_idx
          \/ page_idx' = page_idx /\ InRow' > InRow

\* C23: the descent of parse_utf into nested blobs is bounded by the buffer:
\* every nested decode runs on a slice at least 8 bytes shorter than the
\* buffer of its parent and the nesting depth is at most len(buffer) / 8;
\* the decode comes to its end, every step moving forward through rows and
\* columns whose numbers the header bounds.
C23_DescentBounded ==
    /\ [](UtfReturned => Descends(udata) /\ 8 * Depth(udata) <= Len(udata))
    /\ [](Phase = 1 => page_idx <= uhdr.page_count /\ elem_idx <= uhdr.element_count)
    /\ [][Advances]_vars

\* a table decoded again from its own ninth byte on: a nested decode on a
\* slice exactly 8 bytes shorter than its parent
C23_Witness ==
    /\ UtfReturned /\ utf.st = "ok"
    /\ Depth(udata) = 1
    /\ \E s \in NestedCalls(udata) : Len(s) + 8 = Len(udata) /\ parse_utf(s, 0).st = "ok"
(***************************************************************************)
(* The comment sub-block.                                                  *)
(***************************************************************************)
\* the scan is at a comment sub-block whose length byte declares more bytes
\* than the buffer holds after it
CommTooLong ==
    /\ Dispatching
    /\ TagAtPos = <<99, 111, 109, 109>>
    /\ hpos + 5 <= Len(hdata)
    /\ hpos + 5 + hdata[hpos + 5] > Len(hdata)

\* C24: a comment sub-block whose length byte declares more bytes than
\* remain in the buffer ends parse_hca with the header invalid and a reason;
\* the scan does not drop the comment and go on at the comment's own bytes.
C24_TruncatedCommentInvalid ==
    [][CommTooLong => (pc' = "append" /\ ~hca'.is_valid /\ hca'.error # <<>>)]_vars
(***************************************************************************)
(* The loop points.                                                        *)
(***************************************************************************)
NoLoopFields(h) ==
    /\ h.loop_start_block = 0 /\ h.loop_end_block = 0 /\ h.loop_count = 0
    /\ h.loop_start_sample = 0 /\ h.loop_end_sample = 0

LoopInSamples(h) ==
    /\ h.loop_start_sample = h.loop_start_block * 1024
    /\ h.loop_end_sample = h.loop_end_block * 1024

\* C25 as the spec states it: every returned header, valid or not, has its
\* loop samples equal to the loop blocks times 1024 when has_loop is true,
\* and all five loop fields 0 when it is false.
C25_LoopSamples_AsStated ==
    Returned => IF hca.has_loop THEN LoopInSamples(hca) ELSE NoLoopFields(hca)

\* C25 amended: a valid header with has_loop true has its loop samples equal
\* to the loop blocks times 1024; an invalid header with has_loop true (the
\* buffer ended inside the loop sub-block, or a later read failed) has both
\* loop samples 0, whatever blocks were read; every header with has_loop
\* false has all five loop fields 0.
C25_LoopSamples ==
    Returned =>
        IF ~hca.has_loop THEN NoLoopFields(hca)
        ELSE IF hca.is_valid THEN LoopInSamples(hca)
        ELSE hca.loop_start_sample = 0 /\ hca.loop_end_sample = 0

\* a valid header with a loop from block 1 to block 2
C25_Witness ==
    /\ Returned /\ hca.is_valid /\ hca.has_loop
    /\ hca.loop_start_block = 1 /\ hca.loop_end_block = 2
    /\ hca.loop_start_sample = 1024 /\ hca.loop_end_sample = 2048

\* an invalid header cut inside its loop sub-block, after the first block
C25_WitnessCut ==
    /\ Returned /\ ~hca.is_valid /\ hca.has_loop
    /\ hca.loop_start_block = 1 /\ hca.loop_start_sample = 0
(***************************************************************************)
(* Validity and error of the returned records.                             *)
(***************************************************************************)
AcbReturned == upc = "acb_done"

\* a record is valid exactly when its error is the empty string
Consistent(meta) == meta.is_valid = (meta.error = <<>>)

\* C26: every record parse_hca, parse_awb and parse_acb return is valid if
\* and only if its error is the empty string, on every return path (early
\* returns and caught exceptions included); and a valid record of parse_awb
\* has as many tracks as the declared file_count.
C26_ValidIffNoError ==
    /\ Returned => Consistent(hca)
    /\ Done => (Consistent(awb) /\ (awb.is_valid => Len(awb.tracks) = awb.file_count))
    /\ AcbReturned => Consistent(acb)
(***************************************************************************)
(* parse_awb_tracks, the index parser of the rename tool, on the same      *)
(* file.  It returns the list of the entries or leaves with the exception  *)
(* of a short read (it catches none).                                      *)
(***************************************************************************)
\* f.read(n) at position p: what is left of the file, at most n bytes of
\* it, and all of it for n = -1; a size under -1 raises ValueError
FileRead(d, p, n) == IF n < 0 THEN Slice(d, p, Len(d)) ELSE Slice(d, p, p + n)

\* str(e) of the ValueError raised by f.read of a size under -1
ReadError == <<"read length must be non-negative or -1">>

\* start rounded up to a multiple of alignment
AlignUp(x, alignment) ==
    IF alignment > 0 THEN ((x + alignment - 1) \div alignment) * alignment ELSE x

TracksRaise(err) == [st |-> "raise", err |-> err, tracks |-> <<>>]
TracksOk(tracks) == [st |-> "ok", err |-> <<>>, tracks |-> tracks]

parse_awb_tracks(d) ==
    IF FileRead(d, 0, 4) # TagAFS2 THEN TracksOk(<<>>)
    ELSE IF \E p \in {4, 8, 12} : ~CanRead(d, p, 4) THEN TracksRaise(StructError(4))
    ELSE LET file_count == U32LE(d, 8)
             alignment == U32LE(d, 12)
             current_pos == 16 + 2 * file_count
             align_padding == (4 - (current_pos % 4)) % 4
             table == current_pos + Len(FileRead(d, current_pos, align_padding))
             offsets(k) == U32LE(d, table + 4 * k)
         IN  IF \E k \in 0..(file_count - 1) : ~CanRead(d, 16 + 2 * k, 2)
             THEN TracksRaise(StructError(2))
             ELSE IF \E k \in 0..file_count : ~CanRead(d, table + 4 * k, 4)
             THEN TracksRaise(StructError(4))
             ELSE IF \E k \in 1..file_count :
                        offsets(k) - AlignUp(offsets(k - 1), alignment) < -1
             THEN TracksRaise(ReadError)
             ELSE TracksOk([k \in 1..file_count |->
                      LET first == AlignUp(offsets(k - 1), alignment)
                          last == offsets(k)
                      IN  [index |-> k - 1, start |-> first, end |-> last,
                           track_data |-> FileRead(d, first, last - first)]])

\* the file declares size-field width 4 and embedded key 0
Width4Key0 == Len(data) >= 16 /\ data[6] = 4 /\ U16LE(data, 14) = 0

\* the two parsers resolved the same entries of the file
SameEntries(t) ==
    /\ t.st = "ok"
    /\ Len(t.tracks) = Len(awb.tracks)
    /\ Len(ranges) = Len(awb.tracks)
    /\ \A k \in 1..Len(t.tracks) : <<t.tracks[k].start, t.tracks[k].end>> = ranges[k]

\* C27: on a file with size-field width 4 and embedded key 0, parse_awb_tracks
\* and parse_awb resolve the same number of entries and, for every entry,
\* the same aligned byte range [start, end).
C27_ParsersAgree ==
    (Done /\ Width4Key0) => SameEntries(parse_awb_tracks(data))

\* the same with the index whole, an even number of entries declared and
\* no entry ending before its aligned start
C27_AgreeOnEven ==
    (/\ Done /\ Width4Key0 /\ awb.is_valid /\ awb.file_count % 2 = 0
     /\ \A k \in 1..Len(ranges) : ranges[k][1] <= ranges[k][2])
        => SameEntries(parse_awb_tracks(data))

\* a whole file of two entries, both parsers through
C27_WitnessEven ==
    /\ Done /\ Width4Key0 /\ awb.is_valid /\ awb.file_count = 2
    /\ ranges[1][1] < ranges[1][2]

\* a whole file of one entry, where the tables the two parsers read differ
C27_WitnessOdd ==
    /\ Done /\ Width4Key0 /\ awb.is_valid /\ awb.file_count = 1
    /\ ~SameEntries(parse_awb_tracks(data))
(***************************************************************************)
(* extract_awb (src/extract_voices_to_mp3.py): every subsong of one file   *)
(* that has a stream name and is no placeholder is written to an MP3 file  *)
(* named by its stream name.  vgmstream and ffmpeg are the environment:    *)
(* what vgmstream reports for the subsongs is the input, and whether one   *)
(* extraction succeeds is a choice.  A string is the sequence of its       *)
(* characters; a duration is kept in milliseconds.                         *)
(***************************************************************************)
MaxSubsongs == 3

\* r'\/:*?"<>|'
Unsafe == {"\\", "/", ":", "*", "?", "\"", "<", ">", "|"}

\* s.strip()
RECURSIVE Strip(_)
Strip(s) ==
    IF s = <<>> THEN s
    ELSE IF Head(s) = " " THEN Strip(Tail(s))
    ELSE IF s[Len(s)] = " " THEN Strip(SubSeq(s, 1, Len(s) - 1))
    ELSE s

\* ";" in s
HasSemicolon(s) == \E k \in 1..Len(s) : s[k] = ";"

\* s.split(";")[0]
FirstField(s) ==
    IF HasSemicolon(s)
    THEN SubSeq(s, 1, (CHOOSE k \in 1..Len(s) :
                          s[k] = ";" /\ \A j \in 1..(k - 1) : s[j] # ";") - 1)
    ELSE s

sanitize_stream_name(stream_name) ==
    LET first == IF HasSemicolon(stream_name) THEN Strip(FirstField(stream_name))
                 ELSE stream_name
    IN  [k \in 1..Len(first) |-> IF first[k] \in Unsafe THEN "_" ELSE first[k]]

\* f"{n:02d}"
RECURSIVE Decimal(_)
Decimal(n) ==
    LET digit == <<"0", "1", "2", "3", "4", "5", "6", "7", "8", "9">>[(n % 10) + 1]
    IN  IF n < 10 THEN <<digit>> ELSE Append(Decimal(n \div 10), digit)

TwoDigits(n) == IF n < 10 THEN <<"0">> \o Decimal(n) ELSE Decimal(n)

\* f"{clean_name}_v{variant:02d}.mp3"
VariantName(clean_name, variant) ==
    clean_name \o <<"_", "v">> \o TwoDigits(variant) \o <<".", "m", "p", "3">>

\* f"{clean_name}.mp3"
PlainName(clean_name) == clean_name \o <<".", "m", "p", "3">>

\* get_subsong_info: None, or the stream name and the duration
NoInfo == [some |-> FALSE, stream_name |-> <<>>, duration_ms |-> 0]
SubsongInfo(stream_name, duration_ms) ==
    [some |-> TRUE, stream_name |-> stream_name, duration_ms |-> duration_ms]

\* bool(info and info.stream_name)
Named(info) == info.some /\ info.stream_name # <<>>

\* the first lines of the function: no subsong, or the first pass
ExtractStart ==
    /\ epc = "start"
    /\ IF Len(vgm) = 0
       THEN /\ ereturn' = <<0, 0>>
            /\ epc' = "returned"
            /\ UNCHANGED subsong_infos
       ELSE /\ subsong_infos' = vgm
            /\ epc' = "count"
            /\ UNCHANGED ereturn
    /\ UNCHANGED <<awbvars, uvars, svars, vgm, name_counts, name_variant, eidx, success,
                   skipped, written>>

\* one subsong of the counting loop, and the end of the loop
ExtractCount ==
    /\ epc = "count"
    /\ IF eidx < Len(subsong_infos)
       THEN LET info == subsong_infos[eidx + 1]
                clean_name == sanitize_stream_name(info.stream_name)
            IN  /\ name_counts' =
                       IF Named(info)
                       THEN DictSet(name_counts, clean_name,
                                    DictGet(name_counts, clean_name, 0) + 1)
                       ELSE name_counts
                /\ eidx' = eidx + 1
                /\ epc' = epc
       ELSE /\ eidx' = 0
            /\ epc' = "extract"
            /\ UNCHANGED name_counts
    /\ UNCHANGED <<awbvars, uvars, svars, vgm, subsong_infos, name_variant, success, skipped,
                   written, ereturn>>

\* one subsong of the extraction loop; ok is what extract_subsong_to_mp3 returns
ExtractSubsong ==
    /\ epc = "extract"
    /\ eidx < Len(subsong_infos)
    /\ LET info == subsong_infos[eidx + 1]
           clean_name == sanitize_stream_name(info.stream_name)
           variant == DictGet(name_variant, clean_name, 0) + 1
           duplicate == DictGet(name_counts, clean_name, 0) > 1
           mp3_name == IF duplicate THEN VariantName(clean_name, variant)
                       ELSE PlainName(clean_name)
       IN  IF ~Named(info)
           THEN UNCHANGED <<name_variant, success, skipped, written>>
           ELSE IF info.duration_ms < 600
           THEN /\ skipped' = skipped + 1
                /\ UNCHANGED <<name_variant, success, written>>
           ELSE \E ok \in BOOLEAN :
                   /\ name_variant' = IF duplicate
                                      THEN DictSet(name_variant, clean_name, variant)
                                      ELSE name_variant
                   /\ written' = Append(written, [index |-> eidx + 1, mp3_name |-> mp3_name,
                                                  ok |-> ok])
                   /\ success' = IF ok THEN success + 1 ELSE success
                   /\ UNCHANGED skipped
    /\ eidx' = eidx + 1
    /\ UNCHANGED <<awbvars, uvars, svars, vgm, epc, subsong_infos, name_counts, ereturn>>

\* the loop is over
ExtractReturn ==
    /\ epc = "extract"
    /\ eidx >= Len(subsong_infos)
    /\ ereturn' = <<success, Len(vgm) - skipped>>
    /\ epc' = "returned"
    /\ UNCHANGED <<awbvars, uvars, svars, vgm, subsong_infos, name_counts, name_variant, eidx,
                   success, skipped, written>>

\* what vgmstream may report for one subsong: no stream name, a name, the
\* same name on a placeholder, a name that ends like a variant suffix,
\* multi-cue names, names with an unsafe character
StreamA == <<"V", "O", "1">>
SubsongInfos ==
    {NoInfo,
     SubsongInfo(StreamA, 1500),
     SubsongInfo(StreamA, 100),
     SubsongInfo(StreamA \o <<"_", "v", "0", "1">>, 1500),
     SubsongInfo(StreamA \o <<";", " ", "V", "O", "2">>, 1500),
     SubsongInfo(<<"V", "O", "2", " ", ";", "V", "O", "1">>, 600),
     SubsongInfo(<<"V", "O", "/", "2">>, 1500),
     SubsongInfo(<<"V", "O", ":", "2">>, 599)}

InitExtract ==
    /\ AwbIdle
    /\ AcbIdle
    /\ ScanIdle
    /\ vgm \in SeqsUpTo(SubsongInfos, MaxSubsongs)
    /\ epc = "start"
    /\ subsong_infos = <<>>
    /\ name_counts = <<>>
    /\ name_variant = <<>>
    /\ eidx = 0
    /\ success = 0
    /\ skipped = 0
    /\ written = <<>>
    /\ ereturn = <<>>

NextExtract ==
    \/ ExtractStart
    \/ ExtractCount
    \/ ExtractSubsong
    \/ ExtractReturn

SpecExtract == InitExtract /\ [][NextExtract]_vars

(***************************************************************************)
(* The output names of one extract_awb call.                               *)
(***************************************************************************)
ExtractReturned == epc = "returned"

\* the subsongs, in subsong order, that have the sanitized name of subsong k
Sharing(k) ==
    {j \in 1..Len(subsong_infos) :
        /\ Named(subsong_infos[j])
        /\ sanitize_stream_name(subsong_infos[j].stream_name)
               = sanitize_stream_name(subsong_infos[k].stream_name)}

\* how many calls up to call c were for a subsong sharing the name of c's
Rank(c) ==
    Cardinality({b \in 1..c : written[b].index \in Sharing(written[c].index)})

\* no two successful extractions of the call wrote the same file
DistinctNames ==
    \A a, b \in 1..Len(written) :
        (a # b /\ written[a].ok /\ written[b].ok) => written[a].mp3_name # written[b].mp3_name

\* a shared name carries the suffixes _v01, _v02, ... in subsong order, a
\* name that occurs once carries none
Suffixes ==
    \A c \in 1..Len(written) :
        LET clean_name == sanitize_stream_name(subsong_infos[written[c].index].stream_name)
        IN  written[c].mp3_name =
                IF Cardinality(Sharing(written[c].index)) > 1
                THEN VariantName(clean_name, Rank(c))
                ELSE PlainName(clean_name)

\* 0 <= success <= total - skipped on the returned pair
CountsInRange == ExtractReturned => (0 <= ereturn[1] /\ ereturn[1] <= ereturn[2])

\* C28: within one extract_awb call no two extracted subsongs are written to
\* the same output file name: subsongs sharing a sanitized stream name get
\* the suffixes _v01, _v02, ... in subsong order, a sanitized name that
\* occurs once gets no suffix, and the returned pair (success, total - skipped)
\* satisfies 0 <= success <= total - skipped.
C28_DistinctOutputNames == DistinctNames /\ Suffixes /\ CountsInRange

\* the suffixes and the returned pair alone
C28_SuffixesAndCounts == Suffixes /\ CountsInRange

\* two subsongs named VO1 were written as VO1_v01.mp3 and VO1_v02.mp3
C28_WitnessSuffixes ==
    /\ ExtractReturned /\ Len(written) = 2 /\ ereturn = <<2, 3>>
    /\ written[1].mp3_name = VariantName(StreamA, 1)
    /\ written[2].mp3_name = VariantName(StreamA, 2)

\* a subsong named VO1_v01 was written over the first of two named VO1
C28_WitnessClash ==
    /\ ExtractReturned /\ Len(written) = 3 /\ ereturn = <<3, 3>>
    /\ written[1].mp3_name = written[3].mp3_name
    /\ written[1].index = 1 /\ written[3].index = 3

====
